---- MODULE Spec2Model ----
(***************************************************************************)
(* The sales pipeline of the MoonCat bots: Transfer events are pushed on   *)
(* transferQueue, processTransferQueue confirms them by their receipt and  *)
(* promotes them to salesQueue, processSalesQueue matches each one with a  *)
(* marketplace sale and announces it on the Discord webhook(s).            *)
(*                                                                         *)
(* Three deployments are modelled, selected by the variable variant:       *)
(*   "part_001"  src/unnamed/part_001  guard flags, two webhooks           *)
(*   "bottybot"  src/bottybot.mjs      no guard flags, two contracts       *)
(*   "part_000"  src/unnamed/part_000  no guard flags, one contract        *)
(*                                                                         *)
(* JavaScript runs one callback at a time: every action below is the code  *)
(* that runs between two awaits of one async invocation (a timer firing or *)
(* an external call returning). Every call of an async function is its own *)
(* invocation: tloop[i] is the invocation of processTransferQueue made by  *)
(* the handler of the i-th Transfer event, sloop[i] the invocation of      *)
(* processSalesQueue made when record i was promoted.                      *)
(***************************************************************************)
EXTENDS Integers, Sequences, FiniteSets, TLC

\* Number of Transfer events delivered by the subscription in one run.
MaxEvents == 3

Variants == {"part_001", "bottybot", "part_000"}

MOONCATS_CONTRACT_ADDRESS == "0xc3f733ca98e0dad0386979eb96fb1722a1a05e69"
OLD_WRAPPER_CONTRACT_ADDRESS == "0x7c40c393dc0f283f318791d746d894ddd3693572"

\* Transaction hashes the events are drawn from: two events may belong to
\* the same transaction.
TxHashes == {"0xt1", "0xt2"}
\* The names of the hashes are arbitrary: the first event's is this one.
FirstHash == "0xt1"

Ids == 1..MaxEvents

NoRecord == [id |-> 0, transactionHash |-> "", contractAddress |-> ""]

VARIABLES
    variant,                \* which deployment runs
    transferQueue,          \* const transferQueue = []
    salesQueue,             \* const salesQueue = []
    isProcessingTransfers,  \* part_001 only
    isProcessingSales,      \* part_001 only
    tloop,                  \* invocations of processTransferQueue
    sloop,                  \* invocations of processSalesQueue
    events,                 \* number of Transfer events delivered so far
    \* history, per record id
    dequeued,               \* times the record was shifted off transferQueue
    promoted,               \* times the record was pushed on salesQueue
    drained,                \* times the record was shifted off salesQueue
    receiptOf,              \* the hash asked and what the receipt check found
    lookupOf,               \* what fetchSaleDataFromOpenSea returned for it
    enriched,               \* the announcer found rate, name and image
    announcerCalls,         \* times an announcer was called for the record
    posts                   \* webhook POSTs issued for the record

\* One call of fetchSaleDataFromOpenSea, looked at on its own.
VARIABLES
    query,                  \* its arguments: tokenId, sellerAddress
    response,               \* what the marketplace request came to
    matchResult,            \* what the call returned
    previous                \* the call before it with the same arguments

matcher == <<query, response, matchResult, previous>>

\* One call of the announcer (announceMoonCatSale, tweetMoonCatSale), looked
\* at on its own.
VARIABLES
    saleFacts,              \* the saleData processSalesQueue holds
    ann,                    \* the call: its position, its arguments, the rate
    announcement            \* the message handed to the channel, if any

announcer == <<saleFacts, ann, announcement>>

\* getEthToUsdConversionRate of part_001 and its cache, looked at on their
\* own.
VARIABLES
    now,                    \* Date.now(), in ms since the bot started
    ticks,                  \* times the clock was seen to advance
    cachedConversionRate,   \* let cachedConversionRate = null
    lastFetchedTime,        \* let lastFetchedTime = 0
    rateCall                \* the call of getEthToUsdConversionRate

rateCache == <<now, ticks, cachedConversionRate, lastFetchedTime, rateCall>>

\* The listing bot of bottybot.mjs, looked at on its own; it reads the
\* clock above.
VARIABLES
    LISTINGS_QUEUE,         \* const LISTINGS_QUEUE = []
    PROCESSED_LISTINGS,     \* const PROCESSED_LISTINGS = new Set()
    BLACKLIST,              \* const BLACKLIST = {}
    dloop,                  \* the invocations of processListingsQueue
    lastProcessedTimestamp, \* let lastProcessedTimestamp = 0
    polls,                  \* polls of monitorListings that have come back
    enqueued,               \* what each poll pushed on LISTINGS_QUEUE
    listed,                 \* the 'Listed' announcements delivered, in order
    suppressed              \* the listings the cooldown table held back

listingBot == <<LISTINGS_QUEUE, PROCESSED_LISTINGS, BLACKLIST, dloop,
                lastProcessedTimestamp, polls, enqueued, listed, suppressed>>

\* createWeb3Provider of part_001, looked at on its own.
VARIABLES
    retryCount,             \* let retryCount = 0
    reconnecting,           \* let reconnecting = false
    wsProviders,            \* the providers made so far; wsProvider is the last
    pingInterval,           \* let pingInterval = null: an interval is set
    reconnectTimers         \* the setTimeout callbacks of reconnectIfNeeded
                            \* that are pending

connection == <<retryCount, reconnecting, wsProviders, pingInterval,
                reconnectTimers>>

\* The handlers of part_001 that announce under a name, looked at on their own.
VARIABLES
    handler,                \* the handler at work: its position, the event's
                            \* kind, the display name and the destination
    webhookPosts            \* the destinations POSTed to for the event

nameBlock == <<handler, webhookPosts>>

\* The price computation of fetchSaleDataFromOpenSea, looked at on its own.
VARIABLES
    payment,                \* saleEvent.payment: quantity and decimals
    ethPrice                \* const ethPrice, once computed

pricing == <<payment, ethPrice>>

\* The sales pipeline without the choice of the deployment.
pipeline == <<transferQueue, salesQueue, isProcessingTransfers,
              isProcessingSales, tloop, sloop, events, dequeued, promoted,
              drained, receiptOf, lookupOf, enriched, announcerCalls, posts>>

\* What the actions of the sales pipeline leave alone.
others == <<matcher, announcer, rateCache, listingBot, connection,
            nameBlock, pricing>>

vars == <<variant, transferQueue, salesQueue, isProcessingTransfers,
          isProcessingSales, tloop, sloop, events, dequeued, promoted,
          drained, receiptOf, lookupOf, enriched, announcerCalls, posts,
          others>>

queues == <<transferQueue, salesQueue>>
history == <<dequeued, promoted, drained, receiptOf, lookupOf, enriched,
             announcerCalls, posts>>

----------------------------------------------------------------------------
\* The deployments' differences.

\* Seeded fault: part_001 without its flags.
NoGuardFlags == FALSE

\* part_001 declares isProcessingTransfers / isProcessingSales and returns
\* from the processor when the flag is set; the other files have no flag.
HasGuardFlags == variant = "part_001"

\* The contracts whose Transfer events are subscribed to. part_001 has
\* ENABLE_OLD_WRAPPER = false; part_000 watches the one contract.
WatchedContracts ==
    IF variant = "bottybot"
    THEN {MOONCATS_CONTRACT_ADDRESS, OLD_WRAPPER_CONTRACT_ADDRESS}
    ELSE {MOONCATS_CONTRACT_ADDRESS}

\* if (transferQueue.length === 1) processTransferQueue();
WakeTransfers(queue) == Len(queue) = 1

\* part_001: if (!isProcessingSales); the others: if (salesQueue.length === 1)
WakeSales(queue, flag) ==
    IF HasGuardFlags THEN ~flag ELSE Len(queue) = 1

\* Seeded fault: the last element taken instead of the first
\* (Array.prototype.pop).
pop(queue) == [item |-> queue[Len(queue)],
               rest |-> SubSeq(queue, 1, Len(queue) - 1)]

\* Seeded fault: the first element read but left on the queue.
peek(queue) == [item |-> Head(queue), rest |-> queue]

\* Array.prototype.shift: removes the first element and returns it.
shift(queue) == [item |-> Head(queue), rest |-> Tail(queue)]

----------------------------------------------------------------------------
\* processTransferQueue. The operators take and return the part of the state
\* the synchronous code touches: st = [queue, loops, flag, count].

NotStarted == [pc |-> "none", transfer |-> NoRecord, asked |-> ""]

\* Seeded fault: an if in the place of the while: one record per invocation.
TransferLoopOnce(l, st) ==
    IF st.loops[l].pc = "none" /\ Len(st.queue) > 0
    THEN LET transfer == shift(st.queue).item IN
         [st EXCEPT !.queue = shift(st.queue).rest,
                    !.loops[l] = [pc |-> "settle", transfer |-> transfer,
                                  asked |-> ""],
                    !.count[transfer.id] = @ + 1]
    ELSE [st EXCEPT !.loops[l] = NotStarted,
                    !.flag = IF HasGuardFlags THEN FALSE ELSE @]

\* Seeded fault: isProcessingTransfers is not cleared when the loop is left.
TransferLoopTestKeepsFlag(l, st) ==
    IF Len(st.queue) > 0
    THEN LET transfer == shift(st.queue).item IN
         [st EXCEPT !.queue = shift(st.queue).rest,
                    !.loops[l] = [pc |-> "settle", transfer |-> transfer,
                                  asked |-> ""],
                    !.count[transfer.id] = @ + 1]
    ELSE [st EXCEPT !.loops[l] = NotStarted]

\* The while test of processTransferQueue and the code up to the next await:
\* either shift a record and start its settle delay, or leave the loop (and,
\* in part_001, clear isProcessingTransfers).
TransferLoopTest(l, st) ==
    IF Len(st.queue) > 0
    THEN LET transfer == shift(st.queue).item IN
         [st EXCEPT !.queue = shift(st.queue).rest,
                    !.loops[l] = [pc |-> "settle", transfer |-> transfer,
                                  asked |-> ""],
                    !.count[transfer.id] = @ + 1]
    ELSE [st EXCEPT !.loops[l] = NotStarted,
                    !.flag = IF HasGuardFlags THEN FALSE ELSE @]

\* Seeded fault: processTransferQueue without the test of its guard flag.
processTransferQueueUnguarded(l, st) ==
    TransferLoopTest(l, [st EXCEPT !.flag = HasGuardFlags])

\* A call of processTransferQueue, up to its first await.
processTransferQueue(l, st) ==
    IF HasGuardFlags /\ st.flag
    THEN st
    ELSE TransferLoopTest(l, [st EXCEPT !.flag = HasGuardFlags])

\* The 'data' handler of the Transfer subscription.
TransferEvent(hash, contract) ==
    /\ events < MaxEvents
    /\ events = 0 => hash = FirstHash
    /\ contract \in WatchedContracts
    /\ LET id == events + 1
           record == [id |-> id, transactionHash |-> hash,
                      contractAddress |-> contract]
           pushed == Append(transferQueue, record)
           st == [queue |-> pushed, loops |-> tloop,
                  flag |-> isProcessingTransfers, count |-> dequeued]
           after == IF WakeTransfers(pushed)
                    THEN processTransferQueue(id, st) ELSE st
       IN /\ events' = id
          /\ transferQueue' = after.queue
          /\ tloop' = after.loops
          /\ isProcessingTransfers' = after.flag
          /\ dequeued' = after.count
    /\ UNCHANGED <<others, variant, salesQueue, isProcessingSales, sloop, promoted,
                   drained, receiptOf, lookupOf, enriched, announcerCalls,
                   posts>>

\* The hash processTransferQueue asks the receipt of.
ReceiptRequest(transfer) == transfer.transactionHash

\* TRANSFER_PROCESS_DELAY_MS has elapsed: the loop calls
\* fetchTransactionReceipt(transfer.transactionHash).
SettleDelayElapsed(l) ==
    /\ tloop[l].pc = "settle"
    /\ tloop' = [tloop EXCEPT ![l].pc = "receipt",
                              ![l].asked = ReceiptRequest(tloop[l].transfer)]
    /\ UNCHANGED <<others, variant, queues, isProcessingTransfers, isProcessingSales,
                   sloop, events, history>>

----------------------------------------------------------------------------
\* processSalesQueue, up to the call of fetchSaleDataFromOpenSea.

\* caught: the catch of processSalesQueue ended the iteration before this one.
Idle == [pc |-> "none", sale |-> NoRecord, dest |-> 0, caught |-> FALSE]

\* The while test of processSalesQueue and the code up to the next await:
\* shift a candidate and call fetchSaleDataFromOpenSea (which first waits
\* 10 s), or leave the loop (and, in part_001, clear isProcessingSales).
SalesLoopTest(s, st) ==
    IF Len(st.queue) > 0
    THEN LET sale == shift(st.queue).item IN
         [st EXCEPT !.queue = shift(st.queue).rest,
                    !.loops[s] = [Idle EXCEPT !.pc = "lookup", !.sale = sale],
                    !.count[sale.id] = @ + 1]
    ELSE [st EXCEPT !.loops[s] = Idle,
                    !.flag = IF HasGuardFlags THEN FALSE ELSE @]

\* A call of processSalesQueue, up to its first await.
processSalesQueue(s, st) ==
    IF HasGuardFlags /\ st.flag
    THEN st
    ELSE SalesLoopTest(s, [st EXCEPT !.flag = HasGuardFlags])

----------------------------------------------------------------------------
\* The receipt check.

\* What web3.eth.getTransactionReceipt can do: return a receipt whose status
\* is true or false, return null, or throw.
ReceiptResults == {"success", "reverted", "null", "throws"}

\* fetchTransactionReceipt: the receipt, or null when the call threw.
fetchTransactionReceipt(result) == IF result = "throws" THEN "null" ELSE result

\* Seeded fault: if (receipt), the status forgotten.
ReceiptConfirmedWithoutStatus(receipt) == receipt # "null"

\* if (receipt && receipt.status)
ReceiptConfirmed(receipt) == receipt = "success"

\* Seeded fault: a transfer that is not confirmed is pushed back for
\* another try.
RequeueInvalidTransfer(queue, transfer) == Append(queue, transfer)

\* The else branch of the receipt test logs "Invalid transfer detected" and
\* leaves transferQueue as it is: the record is not pushed back.
AfterInvalidTransfer(queue, transfer) == queue

\* getTransactionReceipt has returned: the rest of the loop body, the call of
\* processSalesQueue it may make, and the loop's next test.
ReceiptReturned(l, result) ==
    /\ tloop[l].pc = "receipt"
    /\ LET transfer == tloop[l].transfer
           receipt == fetchTransactionReceipt(result)
           confirmed == ReceiptConfirmed(receipt)
           pushed == IF confirmed THEN Append(salesQueue, transfer)
                     ELSE salesQueue
           sst == [queue |-> pushed, loops |-> sloop,
                   flag |-> isProcessingSales, count |-> drained]
           safter == IF confirmed /\ WakeSales(pushed, isProcessingSales)
                     THEN processSalesQueue(transfer.id, sst) ELSE sst
           remaining == IF confirmed THEN transferQueue
                        ELSE AfterInvalidTransfer(transferQueue, transfer)
           tafter == TransferLoopTest(l,
                        [queue |-> remaining, loops |-> tloop,
                         flag |-> isProcessingTransfers, count |-> dequeued])
       IN /\ receiptOf' = [receiptOf EXCEPT ![transfer.id] =
                              [hash |-> tloop[l].asked,
                               result |-> IF result = "success"
                                          THEN "success" ELSE "failure"]]
          /\ promoted' = IF confirmed
                         THEN [promoted EXCEPT ![transfer.id] = @ + 1]
                         ELSE promoted
          /\ salesQueue' = safter.queue
          /\ sloop' = safter.loops
          /\ isProcessingSales' = safter.flag
          /\ drained' = safter.count
          /\ transferQueue' = tafter.queue
          /\ tloop' = tafter.loops
          /\ isProcessingTransfers' = tafter.flag
          /\ dequeued' = tafter.count
    /\ UNCHANGED <<others, variant, events, lookupOf, enriched, announcerCalls,
                   posts>>

----------------------------------------------------------------------------
\* processSalesQueue: the match and the announcement.

\* How an iteration of the sales loop ends: the loop's next test.
NextSale(s) ==
    LET after == SalesLoopTest(s, [queue |-> salesQueue, loops |-> sloop,
                                   flag |-> isProcessingSales,
                                   count |-> drained])
    IN /\ salesQueue' = after.queue
       /\ sloop' = after.loops
       /\ isProcessingSales' = after.flag
       /\ drained' = after.count

\* Seeded fault: processSalesQueue without its try/catch: the error ends the
\* invocation, which leaves the queue and the flag as they are.
UncaughtSaleError(s) ==
    /\ sloop' = [sloop EXCEPT ![s] = Idle]
    /\ UNCHANGED <<salesQueue, isProcessingSales, drained>>

\* An announcer has thrown: the catch of processSalesQueue logs the error and
\* the loop goes on with its next test.
CaughtSaleError(s) ==
    LET after == SalesLoopTest(s, [queue |-> salesQueue, loops |-> sloop,
                                   flag |-> isProcessingSales,
                                   count |-> drained])
    IN /\ salesQueue' = after.queue
       /\ sloop' = [after.loops EXCEPT
                       ![s].caught = after.loops[s].pc # "none"]
       /\ isProcessingSales' = after.flag
       /\ drained' = after.count

\* A seeded fault: part_001 without the delay after the announcer.
NoPacingDelay == variant = "bottybot"

\* part_001 and bottybot.mjs wait DISCORD_MESSAGE_DELAY_MS after the
\* announcer has returned; part_000 goes on with the next candidate.
HasPacingDelay == variant \in {"part_001", "bottybot"}

\* The announcer has returned normally.
AnnouncerReturned(s) ==
    IF HasPacingDelay
    THEN /\ sloop' = [sloop EXCEPT ![s].pc = "pace", ![s].dest = 0]
         /\ UNCHANGED <<salesQueue, isProcessingSales, drained>>
    ELSE NextSale(s)

\* What the marketplace request of fetchSaleDataFromOpenSea can lead to: the
\* request or its parsing throws, the window holds no event of this token
\* and seller with a buyer, the event found lacks payment or transaction,
\* or a complete sale event is found.
LookupResults == {"throws", "noMatch", "incomplete", "match"}

\* fetchSaleDataFromOpenSea: the sale data, or null.
fetchSaleDataFromOpenSea(result) ==
    IF result = "match" THEN "saleData" ELSE "null"

\* Seeded fault: the announcer called whatever the lookup returned.
SaleFoundUnchecked(saleData) == TRUE

\* if (saleData)
SaleFound(saleData) == saleData # "null"

\* The announcer processSalesQueue calls for a sale of this contract.
\* part_000 has the one announcer.
AnnouncerFor(contractAddress) ==
    IF variant = "part_000" THEN "announceMoonCatSale"
    ELSE IF contractAddress = OLD_WRAPPER_CONTRACT_ADDRESS
         THEN "announceOldWrapperSale"
         ELSE "announceMoonCatSale"

\* fetchSaleDataFromOpenSea has returned: if (saleData) the announcer is
\* called and awaits getEthToUsdConversionRate; otherwise the loop goes on.
LookupStep(s, result) ==
    /\ sloop[s].pc = "lookup"
    /\ LET id == sloop[s].sale.id
           saleData == fetchSaleDataFromOpenSea(result)
       IN /\ lookupOf' = [lookupOf EXCEPT ![id] = saleData]
          /\ IF SaleFound(saleData)
             THEN /\ sloop' = [sloop EXCEPT ![s].pc = "rate"]
                  /\ announcerCalls' = [announcerCalls EXCEPT ![id] = @ + 1]
                  /\ UNCHANGED <<salesQueue, isProcessingSales, drained>>
             ELSE /\ NextSale(s)
                  /\ UNCHANGED announcerCalls
    /\ UNCHANGED <<variant, transferQueue, isProcessingTransfers, tloop,
                   events, dequeued, promoted, receiptOf, enriched, posts>>

LookupReturned(s, result) == LookupStep(s, result) /\ UNCHANGED others

\* getEthToUsdConversionRate has returned a rate or null. Without a rate the
\* announcer returns. bottybot.mjs calls announceOldWrapperSale with one
\* argument too few, so that its ethPrice is the transaction URL and
\* formatEthPrice throws: the catch of processSalesQueue ends the iteration.
RateReturned(s, rate) ==
    /\ sloop[s].pc = "rate"
    /\ IF rate = "null"
       THEN AnnouncerReturned(s)
       ELSE IF AnnouncerFor(sloop[s].sale.contractAddress)
                 = "announceOldWrapperSale"
            THEN CaughtSaleError(s)
            ELSE /\ sloop' = [sloop EXCEPT ![s].pc = "details"]
                 /\ UNCHANGED <<salesQueue, isProcessingSales, drained>>
    /\ UNCHANGED <<others, variant, transferQueue, isProcessingTransfers, tloop,
                   events, dequeued, promoted, receiptOf, lookupOf, enriched,
                   announcerCalls, posts>>

\* What the lookups of announceMoonCatSale after the rate can find:
\*   "ok"        name data and image URL obtained (the ENS lookup and the
\*               classification have fallbacks and cannot fail)
\*   "nameNull"  getMoonCatNameOrId returned null: the announcer returns
\*   "nameBad"   it returned something without .details (in bottybot.mjs and
\*               part_000 also the fallback string of a failed request):
\*               moonCatData.details.name throws
\*   "blocked"   part_001: isBlockedFullName(name): the announcer returns
\*   "imageNull" getMoonCatImageURL returned null: the announcer returns
DetailResults ==
    {"ok", "nameNull", "nameBad", "imageNull"}
        \cup (IF variant = "part_001" THEN {"blocked"} ELSE {})

\* The webhook URLs sendToDiscord of part_001 posts to, in order
\* (SALES_DISCORD_WEBHOOK_URL, SALES_DISCORD_WEBHOOK_URL2, both set in the
\* environment: the list keeps the ones that are set); the other files
\* post to the one DISCORD_WEBHOOK_URL.
Webhooks == IF variant = "part_001" THEN 2 ELSE 1

\* Seeded fault: the check of the name against isBlockedFullName left out.
AnnouncerProceedsWhenBlocked(details) == details \in {"ok", "blocked"}

\* announceMoonCatSale goes on to sendToDiscord when none of its early
\* returns was taken and nothing threw.
AnnouncerProceeds(details) == details = "ok"

\* The lookups of announceMoonCatSale have returned; with all of them found,
\* sendToDiscord issues the POST to the first webhook.
DetailsStep(s, details) ==
    /\ sloop[s].pc = "details"
    /\ details \in DetailResults
    /\ CASE AnnouncerProceeds(details) ->
              /\ sloop' = [sloop EXCEPT ![s].pc = "post", ![s].dest = 1]
              /\ posts' = [posts EXCEPT ![sloop[s].sale.id] = @ + 1]
              /\ enriched' = [enriched EXCEPT ![sloop[s].sale.id] =
                                 details = "ok"]
              /\ UNCHANGED <<salesQueue, isProcessingSales, drained>>
         [] details = "nameBad" ->
              /\ CaughtSaleError(s)
              /\ UNCHANGED <<posts, enriched>>
         [] OTHER ->
              /\ AnnouncerReturned(s)
              /\ UNCHANGED <<posts, enriched>>
    /\ UNCHANGED <<variant, transferQueue, isProcessingTransfers, tloop,
                   events, dequeued, promoted, receiptOf, lookupOf,
                   announcerCalls>>

DetailsReturned(s, details) == DetailsStep(s, details) /\ UNCHANGED others

\* The POST to webhook sloop[s].dest has returned: delivered (response.ok) or
\* not (fetch threw, or the response was not ok).
\*   part_001: delivered: the next webhook, if any; failed: the inner catch
\*             waits DISCORD_MESSAGE_DELAY_MS.
\*   bottybot: delivered: return; failed: the catch waits the delay.
\*   part_000: the catch logs, sendToDiscord returns either way.
PostReturned(s, delivered) ==
    /\ sloop[s].pc = "post"
    /\ CASE delivered /\ sloop[s].dest < Webhooks ->
              /\ sloop' = [sloop EXCEPT ![s].dest = @ + 1]
              /\ posts' = [posts EXCEPT ![sloop[s].sale.id] = @ + 1]
              /\ UNCHANGED <<salesQueue, isProcessingSales, drained>>
         [] ~delivered /\ variant \in {"part_001", "bottybot"} ->
              /\ sloop' = [sloop EXCEPT ![s].pc = "postFailed", ![s].dest = 0]
              /\ UNCHANGED <<salesQueue, isProcessingSales, drained, posts>>
         [] OTHER ->
              /\ AnnouncerReturned(s)
              /\ UNCHANGED posts
    /\ UNCHANGED <<others, variant, transferQueue, isProcessingTransfers, tloop,
                   events, dequeued, promoted, receiptOf, lookupOf, enriched,
                   announcerCalls>>

\* The delay in the catch of a failed POST has elapsed and the catch throws
\* the error again. In part_001 the outer try of sendToDiscord catches it
\* and sendToDiscord returns; in bottybot.mjs it reaches the catch of
\* processSalesQueue, which goes on with the next candidate.
PostFailureDelayElapsed(s) ==
    /\ sloop[s].pc = "postFailed"
    /\ IF variant = "part_001" THEN AnnouncerReturned(s)
       ELSE CaughtSaleError(s)
    /\ UNCHANGED <<others, variant, transferQueue, isProcessingTransfers, tloop,
                   events, dequeued, promoted, receiptOf, lookupOf, enriched,
                   announcerCalls, posts>>

\* DISCORD_MESSAGE_DELAY_MS after the announcer has elapsed.
PacingDelayElapsed(s) ==
    /\ sloop[s].pc = "pace"
    /\ NextSale(s)
    /\ UNCHANGED <<others, variant, transferQueue, isProcessingTransfers, tloop,
                   events, dequeued, promoted, receiptOf, lookupOf, enriched,
                   announcerCalls, posts>>

----------------------------------------------------------------------------
NoReceipt == [hash |-> "", result |-> "none"]

\* No call of fetchSaleDataFromOpenSea is looked at.
NoQuery == [tokenId |-> "", sellerAddress |-> ""]
NoResponse == [kind |-> "none"]
NotCalled == [kind |-> "none"]
NoPrevious == [response |-> NoResponse, matchResult |-> NotCalled]

MatcherIdle ==
    /\ query = NoQuery
    /\ response = NoResponse
    /\ matchResult = NotCalled
    /\ previous = NoPrevious

\* No call of an announcer is looked at.
NoFacts == [tokenId |-> "", protocolAddress |-> "absent"]
NotAnnouncing == [pc |-> "none", protocolAddress |-> "absent",
                  rate |-> "none"]
NoAnnouncement == [usdPrice |-> "none", marketplaceName |-> "none",
                   marketplaceUrl |-> "none"]

AnnouncerIdle ==
    /\ saleFacts = NoFacts
    /\ ann = NotAnnouncing
    /\ announcement = NoAnnouncement

\* getEthToUsdConversionRate is not being called.
NoRateCall == [pc |-> "none", currentTime |-> 0, cachedBefore |-> "null",
               lastBefore |-> 0, fetched |-> FALSE, response |-> "none",
               returned |-> "none"]

\* The cache as runSalesBot declares it, at the start of the clock.
RateCacheStart ==
    /\ now = 0
    /\ ticks = 0
    /\ cachedConversionRate = "null"
    /\ lastFetchedTime = 0
    /\ rateCall = NoRateCall

\* Polls that deliver listings in one run.
MaxPolls == 2

\* The sellers and tokens of the cooldown table.
CooldownKeys == {"0xab"} \X {"42", "7"}

\* No entry of the cooldown table: BLACKLIST[sellerAddress] or
\* BLACKLIST[sellerAddress][tokenId] is undefined.
NotListed == -1

\* processListingsQueue is not running / has returned.
NotDraining == [pc |-> "none",
                listing |-> [order_hash |-> "", maker |-> "",
                             identifier |-> ""]]

\* The listing bot as runListingBot declares it.
ListingBotStart ==
    /\ LISTINGS_QUEUE = <<>>
    /\ PROCESSED_LISTINGS = <<>>
    /\ BLACKLIST = [k \in CooldownKeys |-> NotListed]
    /\ dloop = [d \in 1..MaxPolls |-> NotDraining]
    /\ lastProcessedTimestamp = 0
    /\ polls = 0
    /\ enqueued = <<>>
    /\ listed = <<>>
    /\ suppressed = {}

\* After new Web3(createWeb3Provider()): setupWebSocketProvider has made the
\* first provider, which is connecting.
ProviderStart ==
    /\ retryCount = 0
    /\ reconnecting = FALSE
    /\ wsProviders = <<"connecting">>
    /\ pingInterval = FALSE
    /\ reconnectTimers = 0

\* No event has reached a handler yet.
NoName == [type |-> "none", text |-> <<>>]
NoHandler == [pc |-> "none", kind |-> "none", tokenId |-> "", name |-> NoName,
              dest |-> 0]

HandlerStart ==
    /\ handler = NoHandler
    /\ webhookPosts = <<>>

\* No sale event has been found yet.
NoPayment == [digits |-> 0, zeros |-> 0, decimals |-> 0]
NotComputed == [sig |-> <<>>, exp |-> -1]

PricingStart ==
    /\ payment = NoPayment
    /\ ethPrice = NotComputed

\* The queues, flags and invocations after construction.
PipelineStart ==
    /\ transferQueue = <<>>
    /\ salesQueue = <<>>
    /\ isProcessingTransfers = FALSE
    /\ isProcessingSales = FALSE
    /\ tloop = [l \in Ids |-> NotStarted]
    /\ sloop = [s \in Ids |-> Idle]
    /\ events = 0
    /\ dequeued = [i \in Ids |-> 0]
    /\ promoted = [i \in Ids |-> 0]
    /\ drained = [i \in Ids |-> 0]
    /\ receiptOf = [i \in Ids |-> NoReceipt]
    /\ lookupOf = [i \in Ids |-> "none"]
    /\ enriched = [i \in Ids |-> FALSE]
    /\ announcerCalls = [i \in Ids |-> 0]
    /\ posts = [i \in Ids |-> 0]

Init ==
    /\ variant \in Variants
    /\ PipelineStart
    /\ MatcherIdle
    /\ AnnouncerIdle
    /\ RateCacheStart
    /\ ListingBotStart
    /\ ProviderStart
    /\ HandlerStart
    /\ PricingStart

Next ==
    \/ \E hash \in TxHashes, contract \in WatchedContracts :
          TransferEvent(hash, contract)
    \/ \E l \in Ids : SettleDelayElapsed(l)
    \/ \E l \in Ids, result \in ReceiptResults : ReceiptReturned(l, result)
    \/ \E s \in Ids, result \in LookupResults : LookupReturned(s, result)
    \/ \E s \in Ids, rate \in {"rate", "null"} : RateReturned(s, rate)
    \/ \E s \in Ids, details \in DetailResults : DetailsReturned(s, details)
    \/ \E s \in Ids, delivered \in BOOLEAN : PostReturned(s, delivered)
    \/ \E s \in Ids : PostFailureDelayElapsed(s)
    \/ \E s \in Ids : PacingDelayElapsed(s)

Spec == Init /\ [][Next]_vars

\* The pipeline of part_001 alone.
Part001Init ==
    /\ Init
    /\ variant = "part_001"

Part001Spec == Part001Init /\ [][Next]_vars

----------------------------------------------------------------------------
\* fetchSaleDataFromOpenSea on its own: the window of sale events the
\* marketplace answered with, and the event the function picks from it.

\* The longest window of sale events looked at.
MaxWindow == 2

TokenIds == {"42", "7"}
\* Addresses as the marketplace writes them: "0xAB" and "0xab" differ by
\* case only.
Addresses == {"0xAB", "0xab", "0xcd"}

\* String.prototype.toLowerCase on these addresses.
toLowerCase(address) == IF address = "0xAB" THEN "0xab" ELSE address

\* toString() of an identifier that is a string already.
toString(identifier) == identifier

\* A sale event of the window: the fields the function reads. "absent" is
\* a field that is missing or null. buyer, payment and transaction are
\* read for their presence only.
SaleEvents ==
    [nft : {"absent"} \cup TokenIds,
     seller : {"absent", "0xAB", "0xcd"},
     buyer : BOOLEAN, payment : BOOLEAN, transaction : BOOLEAN]

\* The windows of up to n events.
Windows(n) == UNION {[1..len -> SaleEvents] : len \in 0..n}

\* What the marketplace request can come to: fetch or response.json()
\* throws, the body has no asset_events array, or it has one.
Responses ==
    {[kind |-> "throws"], [kind |-> "noArray"]}
        \cup {[kind |-> "events", asset_events |-> w] : w \in Windows(MaxWindow)}

\* The transfer the sale is looked up for. The Transfer handler passes the
\* sender in lower case.
Queries == [tokenId : {"42"}, sellerAddress : {"0xab"}]

Null == [kind |-> "null"]
Raised == [kind |-> "raised"]
\* The object the function returns, built from event i of the window.
SaleDataFrom(i) == [kind |-> "saleData", from |-> i]

\* The predicate of combinedData.find.
IsSaleOf(event, tokenId, sellerAddress) ==
    /\ event.nft # "absent"
    /\ toString(event.nft) = toString(tokenId)
    /\ event.seller # "absent"
    /\ toLowerCase(event.seller) = toLowerCase(sellerAddress)
    /\ event.buyer

\* Array.prototype.find: the index of the first event that satisfies the
\* predicate, 0 for undefined.
find(asset_events, tokenId, sellerAddress) ==
    LET hits == {i \in 1..Len(asset_events) :
                    IsSaleOf(asset_events[i], tokenId, sellerAddress)}
    IN IF hits = {} THEN 0
       ELSE CHOOSE i \in hits : \A j \in hits : i <= j

\* if (!saleEvent.seller || !saleEvent.buyer || !saleEvent.payment ||
\*     !saleEvent.transaction) return null
Incomplete(saleEvent) ==
    \/ saleEvent.seller = "absent" \/ ~saleEvent.buyer
    \/ ~saleEvent.payment \/ ~saleEvent.transaction

\* Seeded fault: the function without its try/catch.
MatcherRethrows(error) == Raised

\* catch (error) { console.error(...); return null; }
MatcherCatch(error) == Null

\* A seeded fault: a function that keeps the sales it has returned and does
\* not return one of them again.
matchSaleOnce(resp, tokenId, sellerAddress) ==
    IF resp.kind # "events" THEN Null
    ELSE LET i == find(resp.asset_events, tokenId, sellerAddress)
         IN IF i = 0 THEN Null
            ELSE IF Incomplete(resp.asset_events[i]) THEN Null
            ELSE IF previous.matchResult = SaleDataFrom(i) THEN Null
            ELSE SaleDataFrom(i)

\* The function from the response on. The spread of an asset_events that is
\* missing throws in part_001 and bottybot.mjs; part_000 tests
\* Array.isArray(data.asset_events) first.
matchSale(resp, tokenId, sellerAddress) ==
    IF resp.kind = "throws" THEN MatcherCatch("request")
    ELSE IF resp.kind = "noArray"
    THEN IF variant = "part_000" THEN Null ELSE MatcherCatch("TypeError")
    ELSE IF Len(resp.asset_events) = 0 THEN Null
    ELSE LET i == find(resp.asset_events, tokenId, sellerAddress)
         IN IF i = 0 THEN Null
            ELSE IF Incomplete(resp.asset_events[i]) THEN Null
            ELSE SaleDataFrom(i)

\* fetchSaleDataFromOpenSea is called for a transfer.
MatcherCalled(q) ==
    /\ query = NoQuery
    /\ query' = q
    /\ UNCHANGED <<response, matchResult, previous, variant, pipeline,
                   announcer, rateCache, listingBot, connection, nameBlock,
                   pricing>>

\* The marketplace request has come to an end and the function returns.
MarketplaceResponded ==
    /\ query # NoQuery /\ response = NoResponse
    /\ \E resp \in Responses :
          /\ response' = resp
          /\ matchResult' = matchSale(resp, query.tokenId,
                                      query.sellerAddress)
    /\ UNCHANGED <<query, previous, variant, pipeline, announcer, rateCache,
                   listingBot, connection, nameBlock, pricing>>

MatcherInit ==
    /\ variant \in {"part_001", "bottybot", "part_000"}
    /\ PipelineStart
    /\ MatcherIdle
    /\ AnnouncerIdle
    /\ RateCacheStart
    /\ ListingBotStart
    /\ ProviderStart
    /\ HandlerStart
    /\ PricingStart

MatcherNext ==
    \/ \E q \in Queries : MatcherCalled(q)
    \/ MarketplaceResponded

MatcherSpec == MatcherInit /\ [][MatcherNext]_vars

\* fetchSaleDataFromOpenSea called twice with the same arguments.

\* What the second request comes to when the marketplace does not answer as
\* it did before.
ChangedResponses ==
    {[kind |-> "throws"], [kind |-> "events", asset_events |-> <<>>]}

\* The marketplace answers the second request as it answered the first, or
\* its answer has changed.
AnsweredAgain(first) == {first} \cup ChangedResponses

\* The call has returned and the function is called again with the same
\* tokenId and sellerAddress.
MatcherCalledAgain ==
    /\ matchResult # NotCalled /\ previous = NoPrevious
    /\ previous' = [response |-> response, matchResult |-> matchResult]
    /\ response' = NoResponse
    /\ matchResult' = NotCalled
    /\ UNCHANGED <<query, variant, pipeline, announcer, rateCache,
                   listingBot, connection, nameBlock, pricing>>

\* The second marketplace request has come to an end and the function
\* returns.
MarketplaceRespondedAgain ==
    /\ previous # NoPrevious /\ response = NoResponse
    /\ \E resp \in AnsweredAgain(previous.response) :
          /\ response' = resp
          /\ matchResult' = matchSale(resp, query.tokenId,
                                      query.sellerAddress)
    /\ UNCHANGED <<query, previous, variant, pipeline, announcer, rateCache,
                   listingBot, connection, nameBlock, pricing>>

RepeatInit ==
    /\ MatcherInit
    /\ variant = "part_001"

RepeatNext ==
    \/ \E q \in Queries : MatcherCalled(q)
    \/ previous = NoPrevious /\ MarketplaceResponded
    \/ MatcherCalledAgain
    \/ MarketplaceRespondedAgain

RepeatSpec == RepeatInit /\ [][RepeatNext]_vars

\* fetchSaleDataFromOpenSea with the transaction and the collection of the
\* sale events: what the object it returns has to do with the transfer it
\* is called for.

\* The events a collection's request answers with: complete sale events of
\* a token by a seller, made in a transaction.
CollectionEvents(contract) ==
    [nft : TokenIds, seller : {"0xAB", "0xcd"}, buyer : {TRUE},
     transaction : TxHashes, contract : {contract}]

SalesOfBoth ==
    CollectionEvents(MOONCATS_CONTRACT_ADDRESS)
        \cup CollectionEvents(OLD_WRAPPER_CONTRACT_ADDRESS)

\* The answers of the two collections, each with its events.
SaleWindows ==
    UNION {[1..len -> SalesOfBoth] : len \in 0..MaxWindow}

\* The transfers the function is called for: the handler passes the token,
\* the sender in lower case and the contract; the hash stays in the record.
ConfirmedTransfers ==
    [tokenId : {"42"}, sellerAddress : {"0xab"},
     transactionHash : TxHashes,
     contractAddress : {MOONCATS_CONTRACT_ADDRESS,
                        OLD_WRAPPER_CONTRACT_ADDRESS}]

\* The events of one collection, in their order.
EventsOf(window, contract) ==
    LET FromIt(event) == event.contract = contract
    IN SelectSeq(window, FromIt)

\* combinedData: bottybot.mjs spreads the events of both collections into
\* one array, the acclimated ones first; part_001 (ENABLE_OLD_WRAPPER is
\* false) and part_000 ask for the acclimated collection only.
combinedData(window) ==
    IF variant = "bottybot"
    THEN EventsOf(window, MOONCATS_CONTRACT_ADDRESS)
             \o EventsOf(window, OLD_WRAPPER_CONTRACT_ADDRESS)
    ELSE EventsOf(window, MOONCATS_CONTRACT_ADDRESS)

\* The function from the answers on: the parameters are tokenId and
\* sellerAddress (the contract processSalesQueue passes as a third argument
\* has no parameter), the event is found by token and seller, and the
\* transaction of the link is the event's.
saleDataOf(window, transfer) ==
    LET combined == combinedData(window)
        i == find(combined, transfer.tokenId, transfer.sellerAddress)
    IN IF combined = <<>> \/ i = 0 THEN Null
       ELSE [kind |-> "saleData",
             transaction |-> combined[i].transaction,
             contract |-> combined[i].contract,
             nft |-> combined[i].nft,
             seller |-> combined[i].seller]

\* The requests have been answered and the function returns.
SaleWindowAnswered(window) ==
    /\ query # NoQuery /\ response = NoResponse
    /\ response' = [kind |-> "events", asset_events |-> window]
    /\ matchResult' = saleDataOf(window, query)
    /\ UNCHANGED <<query, previous, variant, pipeline, announcer, rateCache,
                   listingBot, connection, nameBlock, pricing>>

OriginInit == MatcherInit

OriginNext ==
    \/ \E transfer \in ConfirmedTransfers :
          /\ transfer.contractAddress \in WatchedContracts
          /\ MatcherCalled(transfer)
    \/ \E window \in SaleWindows : SaleWindowAnswered(window)

OriginSpec == OriginInit /\ [][OriginNext]_vars

----------------------------------------------------------------------------
\* The announcers on their own: announceMoonCatSale of part_001,
\* bottybot.mjs and part_003, tweetMoonCatSale of botbotbot.mjs.

AnnouncerVariants == {"part_001", "bottybot", "part_003", "botbotbot"}

\* protocol_address of a sale event: missing, empty, blanks only, or the
\* address of a marketplace protocol.
ProtocolAddresses ==
    {"absent", "", "  ", "0x00000000000000adc04c56bf30ac9d3c0aaf14dc"}

\* The saleData objects of matched sales.
SaleFactsSet == [tokenId : TokenIds, protocolAddress : ProtocolAddresses]

\* Seeded fault: the blanks are not trimmed.
trimKeepsBlanks(text) == text

\* String.prototype.trim on these strings.
trim(text) == IF text = "  " THEN "" ELSE text

\* The value the announcer's parameter protocolAddress receives from
\* processSalesQueue. part_003 passes saleData.currency, a field saleData
\* does not have, in the fifth place and saleData.protocolAddress in a sixth
\* place the announcer does not declare. tweetMoonCatSale has no such
\* parameter.
ProtocolArgument(facts) ==
    IF variant \in {"part_001", "bottybot"} THEN facts.protocolAddress
    ELSE "absent"

\* let marketplaceName = "OpenSea";
\* if (!protocolAddress || protocolAddress.trim() === '')
\*     marketplaceName = "Blur";
marketplaceNameOf(protocolAddress) ==
    IF protocolAddress \in {"absent", ""} \/ trim(protocolAddress) = ""
    THEN "Blur" ELSE "OpenSea"

\* The link that goes with the name: the site and the token of its path.
marketplaceUrlOf(protocolAddress, tokenId) ==
    [site |-> IF marketplaceNameOf(protocolAddress) = "Blur"
              THEN "blur.io" ELSE "opensea.io",
     tokenId |-> tokenId]

\* What getEthToUsdConversionRate can return: null, a rate of 0, a rate.
RateResults == {"null", "zero", "rate"}

\* Seeded fault: the announcer goes on without a rate.
GoesOnWithoutRate(rate) == FALSE

\* if (!ethToUsdRate) return; in part_001 and bottybot.mjs. part_003 and
\* botbotbot.mjs have no such test.
AbortsWithoutRate(rate) ==
    variant \in {"part_001", "bottybot"} /\ rate \in {"null", "zero"}

\* (ethPrice * ethToUsdRate).toFixed(2): null counts as 0.
usdPriceOf(rate) == IF rate \in {"null", "zero"} THEN "0.00" ELSE "priced"

\* What the lookups after the rate come to (see DetailResults; part_003
\* reads the name data without a test and sends only with an image;
\* tweetMoonCatSale has the name lookup alone, which can throw).
AnnouncerDetails ==
    CASE variant = "part_001" ->
            {"ok", "nameNull", "nameBad", "blocked", "imageNull"}
      [] variant = "bottybot" -> {"ok", "nameNull", "nameBad", "imageNull"}
      [] variant = "part_003" -> {"ok", "nameBad", "imageNull"}
      [] OTHER -> {"ok", "nameBad"}

\* processSalesQueue calls the announcer, which asks the conversion rate.
AnnouncerCalled(facts) ==
    /\ ann.pc = "none"
    /\ saleFacts' = facts
    /\ ann' = [pc |-> "rate", protocolAddress |-> ProtocolArgument(facts),
               rate |-> "none"]
    /\ UNCHANGED <<announcement, variant, pipeline, matcher, rateCache,
                   listingBot, connection, nameBlock, pricing>>

\* getEthToUsdConversionRate has returned.
ConversionRateReturned(rate) ==
    /\ ann.pc = "rate"
    /\ ann' = [ann EXCEPT !.rate = rate,
                          !.pc = IF AbortsWithoutRate(rate)
                                 THEN "returned" ELSE "details"]
    /\ UNCHANGED <<saleFacts, announcement, variant, pipeline, matcher, rateCache,
                   listingBot, connection, nameBlock, pricing>>

\* The lookups after the rate have returned: with all of them found the
\* message is composed and handed to the channel (the webhook POST, the
\* channel message, the tweet).
AnnouncerLookupsReturned(details) ==
    /\ ann.pc = "details"
    /\ details \in AnnouncerDetails
    /\ CASE details = "ok" ->
              /\ ann' = [ann EXCEPT !.pc = "send"]
              /\ announcement' =
                    [usdPrice |-> usdPriceOf(ann.rate),
                     marketplaceName |->
                         IF variant = "botbotbot" THEN "none"
                         ELSE marketplaceNameOf(ann.protocolAddress),
                     marketplaceUrl |->
                         IF variant = "botbotbot" THEN "none"
                         ELSE marketplaceUrlOf(ann.protocolAddress,
                                               saleFacts.tokenId)]
         [] details = "nameBad" ->
              /\ ann' = [ann EXCEPT !.pc = "threw"]
              /\ UNCHANGED announcement
         [] OTHER ->
              /\ ann' = [ann EXCEPT !.pc = "returned"]
              /\ UNCHANGED announcement
    /\ UNCHANGED <<saleFacts, variant, pipeline, matcher, rateCache,
                   listingBot, connection, nameBlock, pricing>>

\* The channel has answered, or failed: the announcer returns or throws.
DeliveryReturned(delivered) ==
    /\ ann.pc = "send"
    /\ ann' = [ann EXCEPT !.pc =
                  IF ~delivered /\ variant = "bottybot"
                  THEN "threw" ELSE "returned"]
    /\ UNCHANGED <<saleFacts, announcement, variant, pipeline, matcher, rateCache,
                   listingBot, connection, nameBlock, pricing>>

AnnouncerInit ==
    /\ variant \in AnnouncerVariants
    /\ PipelineStart
    /\ MatcherIdle
    /\ AnnouncerIdle
    /\ RateCacheStart
    /\ ListingBotStart
    /\ ProviderStart
    /\ HandlerStart
    /\ PricingStart

AnnouncerNext ==
    \/ \E facts \in SaleFactsSet : AnnouncerCalled(facts)
    \/ \E rate \in RateResults : ConversionRateReturned(rate)
    \/ \E details \in {"ok", "nameNull", "nameBad", "blocked", "imageNull"} :
          AnnouncerLookupsReturned(details)
    \/ \E delivered \in BOOLEAN : DeliveryReturned(delivered)

AnnouncerSpec == AnnouncerInit /\ [][AnnouncerNext]_vars

----------------------------------------------------------------------------
\* processSalesQueue of bottybot.mjs from the matched sale on: the announcer
\* is chosen by the contract of the transfer and called with six fields of
\* saleData.

\* JavaScript values by their type.
NumberValue(x) == [type |-> "number", value |-> x]
StringValue(x) == [type |-> "string", value |-> x]
ObjectValue(x) == [type |-> "object", value |-> x]
UndefinedValue == [type |-> "undefined", value |-> ""]

\* The objects fetchSaleDataFromOpenSea returns for matched sales.
SaleDataSet ==
    [tokenId : {StringValue(t) : t \in TokenIds},
     ethPrice : {NumberValue("1.5")},
     transactionUrl : {StringValue(h) : h \in {"0xt1", "0xt2"}},
     payment : {ObjectValue(symbol) : symbol \in {"ETH", "WETH"}},
     protocolAddress : {StringValue(a) : a \in ProtocolAddresses \ {"absent"}}
                           \cup {UndefinedValue},
     toAddress : {StringValue("0xcd")}]

\* The parameters the two announcers declare.
ParametersOf(announcerName) ==
    IF announcerName = "announceOldWrapperSale"
    THEN <<"realTokenIdHex", "tokenId", "ethPrice", "transactionUrl",
           "paymentToken", "protocolAddress", "buyerAddress">>
    ELSE <<"tokenId", "ethPrice", "transactionUrl", "paymentToken",
           "protocolAddress", "buyerAddress">>

\* The arguments processSalesQueue passes, to the one as to the other.
ArgumentsFrom(saleData) ==
    <<saleData.tokenId, saleData.ethPrice, saleData.transactionUrl,
      saleData.payment, saleData.protocolAddress, saleData.toAddress>>

\* A call binds the parameters to the arguments by position; a parameter
\* without an argument is undefined.
Bound(parameters, arguments) ==
    [name \in {parameters[i] : i \in DOMAIN parameters} |->
        LET i == CHOOSE k \in DOMAIN parameters : parameters[k] = name
        IN IF i <= Len(arguments) THEN arguments[i] ELSE UndefinedValue]

\* if (contractAddress === OLD_WRAPPER_CONTRACT_ADDRESS.toLowerCase()) ...
\* else if (contractAddress === MOONCATS_CONTRACT_ADDRESS.toLowerCase()) ...
AnnouncerOf(contractAddress) ==
    IF contractAddress = "oldWrapper" THEN "announceOldWrapperSale"
    ELSE "announceMoonCatSale"

\* A matched sale of a confirmed transfer of the contract: the announcer is
\* called and asks the conversion rate.
SaleDispatched(contractAddress, saleData) ==
    /\ ann.pc \in {"none", "returned", "threw"}
    /\ saleFacts' = saleData
    /\ ann' = [pc |-> "rate", contractAddress |-> contractAddress,
               announcerName |-> AnnouncerOf(contractAddress),
               bound |-> Bound(ParametersOf(AnnouncerOf(contractAddress)),
                               ArgumentsFrom(saleData)),
               lookupFailed |-> FALSE, posted |-> FALSE]
    /\ announcement' = NoAnnouncement
    /\ UNCHANGED <<variant, pipeline, matcher, rateCache,
                   listingBot, connection, nameBlock, pricing>>

\* getEthToUsdConversionRate has returned: without a rate the announcer
\* returns; formatEthPrice calls ethPrice.toFixed(3), which only a number
\* has; then the details are asked for.
DispatchedRateReturned(rate) ==
    /\ ann.pc = "rate"
    /\ ann' = IF rate = "null"
              THEN [ann EXCEPT !.pc = "returned", !.lookupFailed = TRUE]
              ELSE IF ann.bound["ethPrice"].type # "number"
              THEN [ann EXCEPT !.pc = "threw"]
              ELSE [ann EXCEPT !.pc = "details"]
    /\ UNCHANGED <<saleFacts, announcement, variant, pipeline, matcher,
                   rateCache, listingBot, connection, nameBlock, pricing>>

\* The name and the image have returned: without them the announcer
\* returns; paymentToken.symbol is read (of undefined it throws), then the
\* ENS name of the buyer is asked for.
DispatchedDetailsReturned(found) ==
    /\ ann.pc = "details"
    /\ ann' = IF ~found
              THEN [ann EXCEPT !.pc = "returned", !.lookupFailed = TRUE]
              ELSE IF ann.bound["paymentToken"].type = "undefined"
              THEN [ann EXCEPT !.pc = "threw"]
              ELSE [ann EXCEPT !.pc = "ens"]
    /\ UNCHANGED <<saleFacts, announcement, variant, pipeline, matcher,
                   rateCache, listingBot, connection, nameBlock, pricing>>

\* resolveEnsName has returned: buyerAddress.substring(0, 6) throws unless
\* buyerAddress is a string; the message is composed and POSTed.
DispatchedEnsReturned ==
    /\ ann.pc = "ens"
    /\ IF ann.bound["buyerAddress"].type # "string"
       THEN /\ ann' = [ann EXCEPT !.pc = "threw"]
            /\ UNCHANGED announcement
       ELSE /\ ann' = [ann EXCEPT !.pc = "send"]
            /\ announcement' =
                  [tokenId |-> ann.bound["tokenId"],
                   ethPrice |-> ann.bound["ethPrice"],
                   currency |->
                       IF ann.bound["paymentToken"].type = "object"
                       THEN ann.bound["paymentToken"].value
                       ELSE "undefined",
                   transactionUrl |-> ann.bound["transactionUrl"],
                   buyerAddress |-> ann.bound["buyerAddress"]]
    /\ UNCHANGED <<saleFacts, variant, pipeline, matcher,
                   rateCache, listingBot, connection, nameBlock, pricing>>

\* The webhook has answered, or failed (sendToDiscord rethrows).
DispatchedPostReturned(delivered) ==
    /\ ann.pc = "send"
    /\ ann' = IF delivered THEN [ann EXCEPT !.pc = "returned", !.posted = TRUE]
              ELSE [ann EXCEPT !.pc = "threw", !.lookupFailed = TRUE]
    /\ UNCHANGED <<saleFacts, announcement, variant, pipeline, matcher,
                   rateCache, listingBot, connection, nameBlock, pricing>>

DispatchInit ==
    /\ variant = "bottybot"
    /\ PipelineStart
    /\ MatcherIdle
    /\ AnnouncerIdle
    /\ RateCacheStart
    /\ ListingBotStart
    /\ ProviderStart
    /\ HandlerStart
    /\ PricingStart

DispatchNext ==
    \/ \E contractAddress \in {"oldWrapper", "moonCats"},
          saleData \in SaleDataSet :
          SaleDispatched(contractAddress, saleData)
    \/ \E rate \in {"null", "rate"} : DispatchedRateReturned(rate)
    \/ \E found \in BOOLEAN : DispatchedDetailsReturned(found)
    \/ DispatchedEnsReturned
    \/ \E delivered \in BOOLEAN : DispatchedPostReturned(delivered)

DispatchSpec == DispatchInit /\ [][DispatchNext]_vars

----------------------------------------------------------------------------
\* getEthToUsdConversionRate of part_001 and its cache. The sales loop of
\* part_001 is the one caller and awaits each call: calls do not overlap.

\* Times the clock is seen to advance in one run.
MaxTicks == 3

\* const oneHour = 3600000
oneHour == 3600000

\* The time, in ms, that passes between two observations of the clock.
ClockSteps == {1, oneHour - 1, oneHour}

\* data.data.ETH.quote.USD.price of two different responses.
Rates == {"2411.07", "2398.52"}

\* Seeded fault: a cached rate of exactly one hour counts as fresh.
IsFreshAtOneHour(cached, age) == cached # "null" /\ age <= oneHour

\* cachedConversionRate && (currentTime - lastFetchedTime) < oneHour
IsFresh(cached, age) == cached # "null" /\ age < oneHour

\* Seeded fault: the cached rate stands in for a request that failed.
StaleRateOnError(cached) == cached

\* catch (error) { console.error(...); return null; }
RateOnError(cached) == "null"

\* getEthToUsdConversionRate is called: it reads the clock and either
\* returns the cached rate or sends the request.
RateRequested ==
    /\ rateCall.pc \in {"none", "returned"}
    /\ LET call == [NoRateCall EXCEPT !.currentTime = now,
                                      !.cachedBefore = cachedConversionRate,
                                      !.lastBefore = lastFetchedTime]
       IN rateCall' =
            IF IsFresh(cachedConversionRate, now - lastFetchedTime)
            THEN [call EXCEPT !.pc = "returned",
                              !.returned = cachedConversionRate]
            ELSE [call EXCEPT !.pc = "fetching", !.fetched = TRUE]
    /\ UNCHANGED <<now, ticks, cachedConversionRate, lastFetchedTime,
                   variant, pipeline, matcher, announcer,
                   listingBot, connection, nameBlock, pricing>>

\* The request has come to an end: with a price the cache is set, stamped
\* with the time read at the start of the call; otherwise (fetch rejects,
\* status not ok, body without the price path) the catch returns null.
RateResponded(result) ==
    /\ rateCall.pc = "fetching"
    /\ IF result = "fails"
       THEN /\ rateCall' = [rateCall EXCEPT
                               !.pc = "returned", !.response = result,
                               !.returned = RateOnError(cachedConversionRate)]
            /\ UNCHANGED <<cachedConversionRate, lastFetchedTime>>
       ELSE /\ cachedConversionRate' = result
            /\ lastFetchedTime' = rateCall.currentTime
            /\ rateCall' = [rateCall EXCEPT
                               !.pc = "returned", !.response = result,
                               !.returned = result]
    /\ UNCHANGED <<now, ticks, variant, pipeline, matcher, announcer,
                   listingBot, connection, nameBlock, pricing>>

\* Time passes.
ClockAdvances(step) ==
    /\ ticks < MaxTicks
    /\ ticks' = ticks + 1
    /\ now' = now + step
    /\ UNCHANGED <<cachedConversionRate, lastFetchedTime, rateCall,
                   variant, pipeline, matcher, announcer,
                   listingBot, connection, nameBlock, pricing>>

RateCacheInit ==
    /\ variant = "part_001"
    /\ PipelineStart
    /\ MatcherIdle
    /\ AnnouncerIdle
    /\ RateCacheStart
    /\ ListingBotStart
    /\ ProviderStart
    /\ HandlerStart
    /\ PricingStart

RateCacheNext ==
    \/ RateRequested
    \/ \E result \in Rates \cup {"fails"} : RateResponded(result)
    \/ \E step \in ClockSteps : ClockAdvances(step)

RateCacheSpec == RateCacheInit /\ [][RateCacheNext]_vars

----------------------------------------------------------------------------
\* The listing bot of bottybot.mjs (runListingBot): monitorListings polls
\* OpenSea and pushes the listings on LISTINGS_QUEUE, processListingsQueue
\* drains it, announceMoonCatListing posts a listing unless the seller and
\* the token are in the cooldown table BLACKLIST.

\* const ONE_DAY_MS = 86400000
ONE_DAY_MS == 86400000

\* The time, in ms, that passes between two observations of the clock:
\* twelve hours, so that the clock comes to exactly one day after a stamp.
DaySteps == {ONE_DAY_MS \div 2}

Polls == 1..MaxPolls

\* const ONE_HOUR_MS = 3600000
ONE_HOUR_MS == 3600000

\* The most listings of one collection that the initial run keeps:
\* .slice(0, 20)
InitialRunLimit == 20

\* Date.now() / 1000 when runListingBot starts, scaled down: two hours
\* after the epoch.
StartedAt == 7200

\* Date.now(): the clock above counts from the start of the bot.
DateNow == StartedAt * 1000 + now

\* Math.max() of no arguments: -Infinity, below every event_timestamp.
NegativeInfinity == -1

\* The order events of the acclimated collection that OpenSea has, from the
\* newest to the oldest, all of them listings without a taker: two orders
\* of one seller for token 42, made a minute and exactly an hour before the
\* bot started, and one order of the same seller for token 7, made a second
\* earlier than that. The wrapped collection has no events.
ListingOrders ==
    << [order_hash |-> "0xb2", maker |-> "0xab", identifier |-> "42",
        event_timestamp |-> StartedAt - 60],
       [order_hash |-> "0xa1", maker |-> "0xab", identifier |-> "42",
        event_timestamp |-> StartedAt - 3600],
       [order_hash |-> "0xc3", maker |-> "0xab", identifier |-> "7",
        event_timestamp |-> StartedAt - 3601] >>

\* The events of the list that are in the set, in the order of the list.
RECURSIVE Among(_, _)
Among(list, chosen) ==
    IF list = <<>> THEN <<>>
    ELSE (IF Head(list) \in chosen THEN <<Head(list)>> ELSE <<>>)
             \o Among(Tail(list), chosen)

\* The answers to a poll with data.asset_events: some of the events, the
\* newest first.
AssetEvents ==
    {[ok |-> TRUE, asset_events |-> Among(ListingOrders, chosen)] :
        chosen \in SUBSET {ListingOrders[i] : i \in DOMAIN ListingOrders}}

\* The request of a poll fails (fetch rejects, the body is not JSON or has
\* no asset_events): the catch returns null.
FetchFails == [ok |-> FALSE, asset_events |-> <<>>]

\* Math.max(...events.map(event => event.event_timestamp))
MaxTimestamp(list) ==
    IF list = <<>> THEN NegativeInfinity
    ELSE LET stamps == {list[i].event_timestamp : i \in DOMAIN list}
         IN CHOOSE m \in stamps : \A t \in stamps : t <= m

\* .slice(0, n)
slice(list, n) ==
    SubSeq(list, 1, IF Len(list) < n THEN Len(list) ELSE n)

\* The filter of the initial run: (currentTime - eventTime) <= ONE_HOUR_MS
\* with eventTime = event.event_timestamp * 1000.
WithinTheHour(list, currentTime) ==
    LET Recent(event) ==
            currentTime - event.event_timestamp * 1000 <= ONE_HOUR_MS
    IN SelectSeq(list, Recent)

\* The filter of the later runs:
\* event.event_timestamp > lastProcessedTimestamp
NewerThan(list, last) ==
    LET Newer(event) == event.event_timestamp > last
    IN SelectSeq(list, Newer)

\* fetchListingsFromOpenSea(initialRun) from the responses on: the listings
\* it returns (null for a failed request) and lastProcessedTimestamp when
\* it returns.
fetchListingsFromOpenSea(data, initialRun, last, currentTime) ==
    IF ~data.ok
    THEN [listings |-> <<>>, last |-> last]
    ELSE LET listings ==
                 IF initialRun
                 THEN slice(WithinTheHour(data.asset_events,
                                          currentTime), InitialRunLimit)
                 ELSE NewerThan(data.asset_events, last)
         IN [listings |-> listings,
             last |-> IF listings # <<>> THEN MaxTimestamp(listings)
                      ELSE IF initialRun
                           THEN MaxTimestamp(data.asset_events)
                           ELSE last]

\* if (firstRun): the first poll of monitorListings is the initial run.
firstRun == polls = 0

\* if (PROCESSED_LISTINGS.size > 40)
ProcessedLimit == 40

\* Seeded fault: no order is found in the Set.
hasNever(processed, orderHash) == FALSE

\* PROCESSED_LISTINGS.has(orderHash); the Set is kept in insertion order.
has(processed, orderHash) ==
    \E i \in DOMAIN processed : processed[i] = orderHash

\* Seeded fault: the key deleted is the newest of the old ones.
addDroppingNewest(processed, orderHash) ==
    IF has(processed, orderHash) THEN processed
    ELSE IF Len(processed) + 1 > ProcessedLimit
         THEN Append(SubSeq(processed, 1, Len(processed) - 1), orderHash)
         ELSE Append(processed, orderHash)

\* PROCESSED_LISTINGS.add(orderHash), then the oldest key is deleted when
\* the size is over 40.
addProcessed(processed, orderHash) ==
    IF has(processed, orderHash) THEN processed
    ELSE LET added == Append(processed, orderHash)
         IN IF Len(added) > ProcessedLimit THEN Tail(added) ELSE added

\* LISTINGS_QUEUE.sort((a, b) => a.event_timestamp - b.event_timestamp),
\* by insertion; the sort is stable.
RECURSIVE InsertListing(_, _)
InsertListing(sorted, listing) ==
    IF sorted = <<>> THEN <<listing>>
    ELSE IF listing.event_timestamp < Head(sorted).event_timestamp
         THEN <<listing>> \o sorted
         ELSE <<Head(sorted)>> \o InsertListing(Tail(sorted), listing)

RECURSIVE SortListings(_)
SortListings(queue) ==
    IF queue = <<>> THEN <<>>
    ELSE InsertListing(SortListings(SubSeq(queue, 1, Len(queue) - 1)),
                       queue[Len(queue)])

\* BLACKLIST[sellerAddress] && BLACKLIST[sellerAddress][tokenId] &&
\* (currentTime - BLACKLIST[sellerAddress][tokenId]) < ONE_DAY_MS
isBlacklisted(table, sellerAddress, tokenId, currentTime) ==
    /\ table[<<sellerAddress, tokenId>>] # NotListed
    /\ currentTime - table[<<sellerAddress, tokenId>>] < ONE_DAY_MS

\* BLACKLIST[sellerAddress][tokenId] = currentTime
updateBlacklist(table, sellerAddress, tokenId, currentTime) ==
    [table EXCEPT ![<<sellerAddress, tokenId>>] = currentTime]

\* The head of processListingsQueue's while loop up to its next await, for
\* invocation d: listings whose order_hash is in PROCESSED_LISTINGS are
\* shifted and skipped; the first other listing is shifted and handed to
\* announceMoonCatListing, which returns at once when the seller and the
\* token are in the cooldown table (the loop then records the order and
\* waits LISTING_PROCESS_DELAY_MS) and otherwise awaits the rate.
RECURSIVE NextListing(_, _)
NextListing(d, s) ==
    IF s.queue = <<>>
    THEN [s EXCEPT !.loops[d] = NotDraining]
    ELSE LET event == Head(s.queue)
             listing == [order_hash |-> event.order_hash,
                         maker |-> event.maker,
                         identifier |-> event.identifier]
             shifted == [s EXCEPT !.queue = Tail(s.queue)]
         IN IF has(s.processed, listing.order_hash)
            THEN NextListing(d, shifted)
            ELSE IF isBlacklisted(s.table, listing.maker,
                                  listing.identifier, now)
                 THEN [shifted EXCEPT
                         !.loops[d] = [pc |-> "delay", listing |-> listing],
                         !.processed = addProcessed(@, listing.order_hash),
                         !.suppressed = @ \cup
                             {[maker |-> listing.maker,
                               identifier |-> listing.identifier,
                               at |-> now]}]
                 ELSE [shifted EXCEPT
                         !.loops[d] = [pc |-> "lookups",
                                       listing |-> listing]]

ListingState ==
    [queue |-> LISTINGS_QUEUE, processed |-> PROCESSED_LISTINGS,
     table |-> BLACKLIST, loops |-> dloop, suppressed |-> suppressed]

SetListingState(s) ==
    /\ LISTINGS_QUEUE' = s.queue
    /\ PROCESSED_LISTINGS' = s.processed
    /\ BLACKLIST' = s.table
    /\ dloop' = s.loops
    /\ suppressed' = s.suppressed

\* A poll of monitorListings comes back (the initial one or a tick of the
\* interval): fetchListingsFromOpenSea filters the events and moves
\* lastProcessedTimestamp; listings are pushed, and when the queue holds
\* nothing else processListingsQueue is called; it sorts the queue and runs
\* up to its first await.
ListingsFetched(data) ==
    /\ polls < MaxPolls
    /\ polls' = polls + 1
    /\ LET fetched == fetchListingsFromOpenSea(data, firstRun,
                           lastProcessedTimestamp, DateNow)
           listings == fetched.listings
           pushed == [ListingState EXCEPT !.queue = @ \o listings]
       IN /\ lastProcessedTimestamp' = fetched.last
          /\ enqueued' = Append(enqueued,
                              [before |-> lastProcessedTimestamp,
                               listings |-> listings])
          /\ IF listings = <<>>
             THEN SetListingState(ListingState)
             ELSE IF Len(pushed.queue) = Len(listings)
                  THEN SetListingState(
                           NextListing(polls + 1,
                               [pushed EXCEPT !.queue = SortListings(@)]))
                  ELSE SetListingState(pushed)
    /\ UNCHANGED <<listed, variant, pipeline, matcher, announcer, rateCache,
                   connection, nameBlock, pricing>>

\* getEthToUsdConversionRate and getMoonCatImageURL have returned to
\* announceMoonCatListing: without a rate it returns, the loop records the
\* order and waits; with a rate sendToDiscord sends the POST.
ListingLookupsReturned(d, rate) ==
    /\ dloop[d].pc = "lookups"
    /\ IF rate = "null"
       THEN /\ dloop' = [dloop EXCEPT ![d].pc = "delay"]
            /\ PROCESSED_LISTINGS' =
                   addProcessed(PROCESSED_LISTINGS,
                                dloop[d].listing.order_hash)
       ELSE /\ dloop' = [dloop EXCEPT ![d].pc = "post"]
            /\ UNCHANGED PROCESSED_LISTINGS
    /\ UNCHANGED <<LISTINGS_QUEUE, BLACKLIST, lastProcessedTimestamp, polls,
                   enqueued, listed, suppressed,
                   variant, pipeline, matcher, announcer, rateCache,
                   connection, nameBlock, pricing>>

\* A seeded fault: the catch of sendToDiscord logs the error and does not
\* throw it again.
SenderSwallows(delivered) == FALSE

\* if (!response.ok) throw ...; catch (error) { ...; throw error; }: a POST
\* that failed ends sendToDiscord, and with it the announcer, by an error.
SenderRethrows(delivered) == ~delivered

\* The POST to the webhook has come to an end. Delivered: the announcement
\* is in the channel, updateBlacklist stamps the table, the loop records the
\* order and waits. Failed: sendToDiscord waits LISTING_PROCESS_DELAY_MS and
\* rethrows, the table and PROCESSED_LISTINGS stay as they are.
ListingPostReturned(d, delivered) ==
    /\ dloop[d].pc = "post"
    /\ dloop' = [dloop EXCEPT ![d].pc = "delay"]
    /\ LET listing == dloop[d].listing
       IN /\ listed' = IF delivered
                       THEN Append(listed,
                                   [maker |-> listing.maker,
                                    identifier |-> listing.identifier,
                                    at |-> now])
                       ELSE listed
          /\ IF SenderRethrows(delivered)
             THEN UNCHANGED <<BLACKLIST, PROCESSED_LISTINGS>>
             ELSE /\ BLACKLIST' = updateBlacklist(BLACKLIST, listing.maker,
                                                  listing.identifier, now)
                  /\ PROCESSED_LISTINGS' =
                         addProcessed(PROCESSED_LISTINGS, listing.order_hash)
    /\ UNCHANGED <<LISTINGS_QUEUE, lastProcessedTimestamp, polls, enqueued,
                   suppressed,
                   variant, pipeline, matcher, announcer, rateCache,
                   connection, nameBlock, pricing>>

\* The delay is over (the loop's own, or the one of sendToDiscord followed
\* by the loop's catch): the while loop tests the queue again.
ListingDelayElapsed(d) ==
    /\ dloop[d].pc = "delay"
    /\ SetListingState(NextListing(d, ListingState))
    /\ UNCHANGED <<lastProcessedTimestamp, polls, enqueued, listed,
                   variant, pipeline, matcher, announcer,
                   rateCache, connection, nameBlock, pricing>>

ListingInit ==
    /\ variant = "bottybot"
    /\ PipelineStart
    /\ MatcherIdle
    /\ AnnouncerIdle
    /\ RateCacheStart
    /\ ListingBotStart
    /\ ProviderStart
    /\ HandlerStart
    /\ PricingStart

ListingNext ==
    \/ \E data \in AssetEvents \cup {FetchFails} :
           ListingsFetched(data)
    \/ \E d \in Polls, rate \in {"null", "rate"} :
           ListingLookupsReturned(d, rate)
    \/ \E d \in Polls, delivered \in BOOLEAN :
           ListingPostReturned(d, delivered)
    \/ \E d \in Polls : ListingDelayElapsed(d)
    \/ \E step \in DaySteps : ClockAdvances(step)

ListingSpec == ListingInit /\ [][ListingNext]_vars

\* The listing bot of part_001: the request for the wrapped collection is
\* commented out, the rest of fetchListingsFromOpenSea is as it was.

\* The requests handed to Promise.all.
ListingRequests == <<"acclimatedmooncats">>

NoSuchElement == [ok |-> FALSE, asset_events |-> <<>>, undefined |-> TRUE]

\* const [a, b] = array: the element at the position, undefined beyond the
\* end of the array.
Destructured(array, i) == IF i <= Len(array) THEN array[i] ELSE NoSuchElement

\* fetchListingsFromOpenSea of part_001 from the response on. The log line
\* after Promise.all reads responseOldWrapper.status: of undefined this
\* throws a TypeError, which the catch turns into null.
fetchListingsPart001(data, initialRun, last, currentTime) ==
    LET responses == [i \in DOMAIN ListingRequests |-> data]
        responseMoonCats == Destructured(responses, 1)
        responseOldWrapper == Destructured(responses, 2)
        null == [returned |-> "null", listings |-> <<>>, last |-> last]
    IN IF responseOldWrapper = NoSuchElement THEN null
       ELSE IF ~responseMoonCats.ok THEN null
       ELSE LET fetched == fetchListingsFromOpenSea(responseMoonCats,
                               initialRun, last, currentTime)
            IN [returned |-> "listings", listings |-> fetched.listings,
                last |-> fetched.last]

\* A poll of part_001's monitorListings comes back: listings that are not
\* null and not empty are pushed, and processListingsQueue is called when
\* the queue holds nothing else.
Part001ListingsFetched(data) ==
    /\ polls < MaxPolls
    /\ polls' = polls + 1
    /\ LET fetched == fetchListingsPart001(data, firstRun,
                           lastProcessedTimestamp, DateNow)
           listings == fetched.listings
           pushed == [ListingState EXCEPT !.queue = @ \o listings]
       IN /\ lastProcessedTimestamp' = fetched.last
          /\ enqueued' = Append(enqueued,
                              [before |-> lastProcessedTimestamp,
                               listings |-> listings,
                               returned |-> fetched.returned,
                               initialRun |-> firstRun,
                               data |-> data])
          /\ IF listings = <<>>
             THEN SetListingState(ListingState)
             ELSE IF Len(pushed.queue) = Len(listings)
                  THEN SetListingState(
                           NextListing(polls + 1,
                               [pushed EXCEPT !.queue = SortListings(@)]))
                  ELSE SetListingState(pushed)
    /\ UNCHANGED <<listed, variant, pipeline, matcher, announcer, rateCache,
                   connection, nameBlock, pricing>>

Part001ListingInit ==
    /\ variant = "part_001"
    /\ PipelineStart
    /\ MatcherIdle
    /\ AnnouncerIdle
    /\ RateCacheStart
    /\ ListingBotStart
    /\ ProviderStart
    /\ HandlerStart
    /\ PricingStart

\* The steps of the drain are those of ListingNext; none of them is enabled
\* while LISTINGS_QUEUE is empty and no drain was started.
Part001ListingNext ==
    \/ \E data \in AssetEvents \cup {FetchFails} :
           Part001ListingsFetched(data)
    \/ \E step \in DaySteps : ClockAdvances(step)

Part001ListingSpec == Part001ListingInit /\ [][Part001ListingNext]_vars

----------------------------------------------------------------------------
\* The listing bot of bottybot.mjs with more orders than PROCESSED_LISTINGS
\* keeps: the same actions, with one seller who lists token 42 again and
\* again within the hour before the bot starts and while it runs.

\* Orders with hashes of their own in one run.
MaxOrders == 41

\* The order events OpenSea has in the end, from the oldest to the newest:
\* MaxOrders orders with hashes of their own, then a second event for the
\* newest of these orders and a second event for the oldest.
ManyOrders ==
    [i \in 1..(MaxOrders + 2) |->
        [order_hash |-> IF i <= MaxOrders THEN ToString(i)
                        ELSE IF i = MaxOrders + 1 THEN ToString(MaxOrders)
                        ELSE ToString(1),
         maker |-> "0xab", identifier |-> "42",
         event_timestamp |-> StartedAt - ONE_HOUR_MS \div 1000 + i]]

\* The first n of the events, the newest first.
RECURSIVE NewestFirst(_)
NewestFirst(n) ==
    IF n = 0 THEN <<>> ELSE <<ManyOrders[n]>> \o NewestFirst(n - 1)

\* What a poll comes to: the request fails, or the answer has the events
\* with hashes of their own but the last, all of these, or all events.
ManyAssetEvents ==
    {FetchFails} \cup
    {[ok |-> TRUE, asset_events |-> NewestFirst(n)] :
        n \in {MaxOrders - 1, MaxOrders, MaxOrders + 2}}

\* The rate is there and the POST is delivered; the lookups that fail and
\* the POSTs that fail are in ListingNext.
ProcessedNext ==
    \/ \E data \in ManyAssetEvents : ListingsFetched(data)
    \/ \E d \in Polls, rate \in {"null", "rate"} :
           ListingLookupsReturned(d, rate)
    \/ \E d \in Polls : ListingPostReturned(d, TRUE)
    \/ \E d \in Polls : ListingDelayElapsed(d)

ProcessedSpec == ListingInit /\ [][ProcessedNext]_vars

----------------------------------------------------------------------------
\* createWeb3Provider of part_001: setupWebSocketProvider makes a provider
\* and registers its 'connect', 'end' and 'error' handlers and a health
\* check; reconnectIfNeeded schedules a timer that makes the next provider.
\* The handlers of the earlier providers and their health checks stay
\* registered.

\* Providers made in one run.
MaxProviders == 3

Providers == 1..MaxProviders

\* const maxRetries = 10
maxRetries == 10

\* wsProvider && wsProvider.connected
Connected(providers) == providers[Len(providers)] = "connected"

\* reconnectIfNeeded(): nothing while a reconnection is in progress or the
\* provider is connected, nothing at maxRetries; otherwise reconnecting is
\* set, retryCount goes up and the timer is scheduled.
reconnectIfNeeded(s, providers) ==
    IF s.reconnecting \/ Connected(providers)
    THEN s
    ELSE IF s.retryCount >= maxRetries
         THEN s
         ELSE [reconnecting |-> TRUE, retryCount |-> s.retryCount + 1,
               reconnectTimers |-> s.reconnectTimers + 1]

RetryState ==
    [reconnecting |-> reconnecting, retryCount |-> retryCount,
     reconnectTimers |-> reconnectTimers]

SetRetryState(s) ==
    /\ reconnecting' = s.reconnecting
    /\ retryCount' = s.retryCount
    /\ reconnectTimers' = s.reconnectTimers

\* wsProvider.on('connect'): provider p has connected; retryCount and
\* reconnecting are reset and startPing sets the ping interval.
ProviderConnected(p) ==
    /\ p \in DOMAIN wsProviders
    /\ wsProviders[p] = "connecting"
    /\ wsProviders' = [wsProviders EXCEPT ![p] = "connected"]
    /\ retryCount' = 0
    /\ reconnecting' = FALSE
    /\ pingInterval' = TRUE
    /\ UNCHANGED <<reconnectTimers, variant, pipeline, matcher, announcer,
                   rateCache, listingBot, nameBlock, pricing>>

\* wsProvider.on('error'): the connection of provider p has failed; stopPing
\* then reconnectIfNeeded. The 'end' event of the provider is still to come.
ProviderError(p) ==
    /\ p \in DOMAIN wsProviders
    /\ wsProviders[p] \in {"connecting", "connected"}
    /\ wsProviders' = [wsProviders EXCEPT ![p] = "closing"]
    /\ pingInterval' = FALSE
    /\ SetRetryState(reconnectIfNeeded(RetryState, wsProviders'))
    /\ UNCHANGED <<variant, pipeline, matcher, announcer, rateCache,
                   listingBot, nameBlock, pricing>>

\* wsProvider.on('end'): the connection of provider p has ended; stopPing
\* then reconnectIfNeeded.
ProviderEnd(p) ==
    /\ p \in DOMAIN wsProviders
    /\ wsProviders[p] \in {"connecting", "connected", "closing"}
    /\ wsProviders' = [wsProviders EXCEPT ![p] = "ended"]
    /\ pingInterval' = FALSE
    /\ SetRetryState(reconnectIfNeeded(RetryState, wsProviders'))
    /\ UNCHANGED <<variant, pipeline, matcher, announcer, rateCache,
                   listingBot, nameBlock, pricing>>

\* A tick of a health check (every setupWebSocketProvider sets one):
\* reconnectIfNeeded when the provider is not connected.
HealthCheck ==
    /\ SetRetryState(IF Connected(wsProviders) THEN RetryState
                     ELSE reconnectIfNeeded(RetryState, wsProviders))
    /\ UNCHANGED <<wsProviders, pingInterval, variant, pipeline, matcher,
                   announcer, rateCache, listingBot, nameBlock, pricing>>

\* A tick of the ping interval: a ping is sent on a connected provider,
\* otherwise reconnectIfNeeded.
PingTick ==
    /\ pingInterval
    /\ SetRetryState(IF Connected(wsProviders) THEN RetryState
                     ELSE reconnectIfNeeded(RetryState, wsProviders))
    /\ UNCHANGED <<wsProviders, pingInterval, variant, pipeline, matcher,
                   announcer, rateCache, listingBot, nameBlock, pricing>>

\* The timer of reconnectIfNeeded fires: a connected provider is
\* disconnected, setupWebSocketProvider makes the next provider and
\* web3.setProvider takes it; reconnecting stays set. When this throws, the
\* catch clears reconnecting and there is no new provider.
ReconnectTimerFired(threw) ==
    /\ reconnectTimers > 0
    /\ threw \/ Len(wsProviders) < MaxProviders
    /\ reconnectTimers' = reconnectTimers - 1
    /\ LET disconnected ==
               IF Connected(wsProviders)
               THEN [wsProviders EXCEPT ![Len(wsProviders)] = "closing"]
               ELSE wsProviders
       IN IF threw
          THEN /\ wsProviders' = disconnected
               /\ reconnecting' = FALSE
          ELSE /\ wsProviders' = Append(disconnected, "connecting")
               /\ UNCHANGED reconnecting
    /\ UNCHANGED <<retryCount, pingInterval, variant, pipeline, matcher,
                   announcer, rateCache, listingBot, nameBlock, pricing>>

ProviderInit ==
    /\ variant = "part_001"
    /\ PipelineStart
    /\ MatcherIdle
    /\ AnnouncerIdle
    /\ RateCacheStart
    /\ ListingBotStart
    /\ ProviderStart
    /\ HandlerStart
    /\ PricingStart

ProviderNext ==
    \/ \E p \in Providers : ProviderConnected(p)
    \/ \E p \in Providers : ProviderError(p)
    \/ \E p \in Providers : ProviderEnd(p)
    \/ HealthCheck
    \/ PingTick
    \/ \E threw \in BOOLEAN : ReconnectTimerFired(threw)

ProviderSpec == ProviderInit /\ [][ProviderNext]_vars

\* The timers fire and the health checks tick.
ProviderFairSpec ==
    /\ ProviderSpec
    /\ WF_vars(HealthCheck)
    /\ WF_vars(\E threw \in BOOLEAN : ReconnectTimerFired(threw))

----------------------------------------------------------------------------
\* The name block of part_001: announceMoonCatSale, announceMoonCatListing and
\* the CatNamed handler, each from its call to its return. A name is the
\* sequence of its characters.

Kinds == {"sale", "listing", "naming"}

Str(chars) == [type |-> "string", text |-> chars]

\* listing.asset?.name of a listing without a name; details.name: null.
Undefined == [type |-> "undefined", text |-> <<>>]

\* The names the marketplace and the traits service answer with.
Names ==
    {Str(text) : text \in
        {<<"L", "u", "n", "a">>,
         <<"b", "o", "n", "n", "a">>,
         <<"B", "0", "n", "n", "4">>,
         <<"b", "-", "o", "n", " ", "n", "@">>,
         <<"b", "o", "n", "n", "-", "@">>,
         <<"x", "B", "O", "N", "N", "A", "x">>,
         <<"D", "i", "s", "c", "o", "r", "d">>,
         <<"b", "o", "n", "a">>,
         <<"b", "x", "o", "n", "n", "a">>,
         <<"b", "o", "n", "-">>,
         <<>>}} \cup {Undefined}

\* catName of a CatNamed event after hexToUtf8: the name, padded with NUL.
RawNames ==
    {<<"L", "u", "n", "a", "NUL", "NUL">>,
     <<" ", "L", "u", "n", "a", " ", "NUL">>,
     <<"b", "o", "n", "NUL", "n", "a">>,
     <<"b", "0", "n", "n", "@", "NUL">>,
     <<"d", "i", "s", "c", "o", "r", "d", "NUL">>,
     <<"b", "o", "n", "a", "NUL">>,
     <<"NUL", "NUL">>}

\* details.catId of the traits service.
CatId == <<"0", "x", "0", "0", "d", "6">>

\* String.prototype.toLowerCase, over the letters of the names above.
lowerChar(c) ==
    CASE c = "B" -> "b" [] c = "D" -> "d" [] c = "L" -> "l"
      [] c = "O" -> "o" [] c = "N" -> "n" [] c = "A" -> "a"
      [] OTHER -> c

lower(text) == [i \in 1..Len(text) |-> lowerChar(text[i])]

\* [a-zA-Z0-9], over the characters of the names above.
Alphanumeric(c) ==
    lowerChar(c) \in {"a", "b", "c", "d", "i", "l", "n", "o", "r", "s", "u",
                      "x", "0", "4", "6"}

\* String.prototype.includes.
includes(text, part) ==
    \E i \in 1..(Len(text) - Len(part) + 1) :
        SubSeq(text, i, i + Len(part) - 1) = part

\* /b[^a-zA-Z0-9]*(?:o|0)[^a-zA-Z0-9]*n[^a-zA-Z0-9]*n[^a-zA-Z0-9]*(?:a|4|@)/i
BonnaPattern == <<{"b"}, {"o", "0"}, {"n"}, {"n"}, {"a", "4", "@"}>>

\* The pattern matches text from position i on, its first k - 1 letters
\* already matched.
RECURSIVE MatchesFrom(_, _, _)
MatchesFrom(text, i, k) ==
    IF k > Len(BonnaPattern) THEN TRUE
    ELSE IF i > Len(text) THEN FALSE
    ELSE \/ /\ lowerChar(text[i]) \in BonnaPattern[k]
            /\ MatchesFrom(text, i + 1, k + 1)
         \/ /\ k > 1
            /\ ~Alphanumeric(text[i])
            /\ MatchesFrom(text, i + 1, k)

isBlacklistedName(s) ==
    /\ s.type = "string"
    /\ \E i \in 1..Len(s.text) : MatchesFrom(s.text, i, 1)

isBlockedFullName(s) ==
    /\ s.type = "string"
    /\ \/ isBlacklistedName(s)
       \/ includes(lower(s.text), <<"b", "o", "n", "n", "a">>)
       \/ includes(lower(s.text), <<"d", "i", "s", "c", "o", "r", "d">>)

\* String.prototype.trim.
RECURSIVE trimStart(_)
trimStart(text) ==
    IF text # <<>> /\ Head(text) = " " THEN trimStart(Tail(text)) ELSE text

RECURSIVE trimEnd(_)
trimEnd(text) ==
    IF text # <<>> /\ text[Len(text)] = " "
    THEN trimEnd(SubSeq(text, 1, Len(text) - 1))
    ELSE text

\* rawName.replace(/\u0000/g, '').trim()
decodedName(rawName) ==
    Str(trimEnd(trimStart(SelectSeq(rawName, LAMBDA c : c # "NUL"))))

\* moonCatData.details.name ? moonCatData.details.name : details.catId
moonCatNameOrId(details) ==
    IF details.name.type = "string" /\ details.name.text # <<>>
    THEN details.name
    ELSE Str(CatId)

\* What getMoonCatNameOrId answers: null, or the traits of the cat.
NoTraits == [found |-> FALSE, name |-> Undefined]
Traits == {NoTraits} \cup [found : {TRUE}, name : Names]

\* A seeded fault: the name is not looked at.
NameGateOpen(name, next) == next

\* if (isBlockedFullName(name)) return;
NameGate(name, next) == IF isBlockedFullName(name) THEN "returned" ELSE next

\* The webhooks a handler POSTs to: the sales bot has two, the listing bot
\* and the name bot one each.
Destinations(kind) == IF kind = "sale" THEN 2 ELSE 1

\* What the event of a kind carries of the name.
NamesOf(kind) ==
    CASE kind = "sale" -> {NoName}
      [] kind = "listing" -> Names
      [] kind = "naming" -> {[type |-> "raw", text |-> raw] : raw \in RawNames}

\* A handler is called with an event and runs to its first await. The sale
\* announcer asks for the rate; the listing announcer tests the name and the
\* cooldown and asks for the rate; the CatNamed handler decodes the name,
\* tests it and asks for the image and the rescue index.
HandlerCalled(kind, tokenId, name) ==
    /\ handler.pc \in {"none", "returned", "raised"}
    /\ name \in NamesOf(kind)
    /\ webhookPosts' = <<>>
    /\ CASE kind = "sale" ->
              handler' = [pc |-> "rate", kind |-> kind, tokenId |-> tokenId,
                          name |-> NoName, dest |-> 0]
         [] kind = "listing" ->
              \E cooling \in BOOLEAN :
                  handler' = [pc |-> NameGate(name, IF cooling THEN "returned"
                                                    ELSE "rate"),
                              kind |-> kind, tokenId |-> tokenId,
                              name |-> name, dest |-> 0]
         [] kind = "naming" ->
              handler' = [pc |-> NameGate(decodedName(name.text), "lookups"),
                          kind |-> kind, tokenId |-> tokenId,
                          name |-> decodedName(name.text), dest |-> 0]
    /\ UNCHANGED <<variant, pipeline, matcher, announcer, rateCache,
                   listingBot, connection, pricing>>

\* getEthToUsdConversionRate has answered: without a rate the announcer
\* returns; the sale announcer goes on to the name, the listing announcer to
\* the classification and the image.
HandlerRateReturned(rate) ==
    /\ handler.pc = "rate"
    /\ handler' = [handler EXCEPT !.pc =
           IF rate = "null" THEN "returned"
           ELSE IF handler.kind = "sale" THEN "name" ELSE "lookups"]
    /\ UNCHANGED <<webhookPosts, variant, pipeline, matcher, announcer,
                   rateCache, listingBot, connection, pricing>>

\* getMoonCatNameOrId has answered the sale announcer.
HandlerNameReturned(moonCatData) ==
    /\ handler.pc = "name"
    /\ IF ~moonCatData.found
       THEN handler' = [handler EXCEPT !.pc = "returned"]
       ELSE handler' = [handler EXCEPT
                !.pc = NameGate(moonCatNameOrId(moonCatData), "lookups"),
                !.name = moonCatNameOrId(moonCatData)]
    /\ UNCHANGED <<webhookPosts, variant, pipeline, matcher, announcer,
                   rateCache, listingBot, connection, pricing>>

\* The image, the ENS name, the classification and the rescue index have
\* come back. The sale announcer returns without an image and the CatNamed
\* handler without a rescue index; otherwise the first POST goes out.
HandlerLookupsReturned(ok) ==
    /\ handler.pc = "lookups"
    /\ IF ~ok /\ handler.kind \in {"sale", "naming"}
       THEN /\ handler' = [handler EXCEPT !.pc = "returned"]
            /\ UNCHANGED webhookPosts
       ELSE /\ handler' = [handler EXCEPT !.pc = "post", !.dest = 1]
            /\ webhookPosts' = Append(webhookPosts, 1)
    /\ UNCHANGED <<variant, pipeline, matcher, announcer, rateCache,
                   listingBot, connection, pricing>>

\* A POST has come back. Delivered, the next webhook is POSTed to or the
\* handler returns; failed, the senders throw: the outer try of the sales
\* sendToDiscord and the try of the CatNamed handler catch the error, the
\* error of the listing sender reaches processListingsQueue.
HandlerPostReturned(delivered) ==
    /\ handler.pc = "post"
    /\ IF delivered /\ handler.dest < Destinations(handler.kind)
       THEN /\ handler' = [handler EXCEPT !.dest = handler.dest + 1]
            /\ webhookPosts' = Append(webhookPosts, handler.dest + 1)
       ELSE /\ handler' = [handler EXCEPT !.pc =
                   IF delivered \/ handler.kind \in {"sale", "naming"}
                   THEN "returned" ELSE "raised"]
            /\ UNCHANGED webhookPosts
    /\ UNCHANGED <<variant, pipeline, matcher, announcer, rateCache,
                   listingBot, connection, pricing>>

NameBlockInit ==
    /\ variant = "part_001"
    /\ PipelineStart
    /\ MatcherIdle
    /\ AnnouncerIdle
    /\ RateCacheStart
    /\ ListingBotStart
    /\ ProviderStart
    /\ HandlerStart
    /\ PricingStart

NameBlockNext ==
    \/ \E kind \in Kinds, tokenId \in TokenIds,
          name \in UNION {NamesOf(k) : k \in Kinds} :
          HandlerCalled(kind, tokenId, name)
    \/ \E rate \in {"null", "rate"} : HandlerRateReturned(rate)
    \/ \E moonCatData \in Traits : HandlerNameReturned(moonCatData)
    \/ \E ok \in BOOLEAN : HandlerLookupsReturned(ok)
    \/ \E delivered \in BOOLEAN : HandlerPostReturned(delivered)

NameBlockSpec == NameBlockInit /\ [][NameBlockNext]_vars

\* The CatNamed handler with the rescue index the lookup comes to.

\* The largest rescue index looked at.
MaxRescueIndex == 3

\* What getRescueIndex returns: null when the request fails, the number
\* data.details.rescueIndex otherwise.
NullIndex == [type |-> "null", value |-> 0]
RescueIndexes == {NullIndex} \cup {NumberValue(i) : i \in 0..MaxRescueIndex}

\* if (rescueIndex): null and the number 0 are falsy.
Truthy(rescueIndex) == rescueIndex # NullIndex /\ rescueIndex.value # 0

\* getMoonCatImageURL and getRescueIndex have returned to the handler: with
\* a rescue index it calls sendNameToDiscord, which POSTs to the webhook,
\* with the image or with null for it.
NamingLookupsReturned(imageUrl, rescueIndex) ==
    /\ handler.pc = "lookups" /\ handler.kind = "naming"
    /\ IF Truthy(rescueIndex)
       THEN /\ handler' = [pc |-> "post", kind |-> handler.kind,
                           tokenId |-> handler.tokenId, name |-> handler.name,
                           dest |-> 1, rescueIndex |-> rescueIndex,
                           imageUrl |-> imageUrl]
            /\ webhookPosts' = Append(webhookPosts, 1)
       ELSE /\ handler' = [pc |-> "returned", kind |-> handler.kind,
                           tokenId |-> handler.tokenId, name |-> handler.name,
                           dest |-> 0, rescueIndex |-> rescueIndex,
                           imageUrl |-> imageUrl]
            /\ UNCHANGED webhookPosts
    /\ UNCHANGED <<variant, pipeline, matcher, announcer, rateCache,
                   listingBot, connection, pricing>>

NamingInit == NameBlockInit

NamingNext ==
    \/ \E tokenId \in TokenIds, name \in NamesOf("naming") :
          HandlerCalled("naming", tokenId, name)
    \/ \E imageUrl \in {"null", "url"}, rescueIndex \in RescueIndexes :
          NamingLookupsReturned(imageUrl, rescueIndex)
    \/ \E delivered \in BOOLEAN : HandlerPostReturned(delivered)

NamingSpec == NamingInit /\ [][NamingNext]_vars

----------------------------------------------------------------------------
\* part_001 from the Transfer event to the webhooks: the pipeline together
\* with what the matcher hands to announceMoonCatSale and what the announcer
\* composes. One event is followed: its receipt reports success, the matcher
\* finds its sale with an empty protocol address, the lookups of the
\* announcer succeed and both webhooks answer ok. The calls made for the
\* other events end as they may.

\* The event that is followed: events come before it and after it.
Followed == MaxEvents - 1

\* event.returnValues.tokenId: the token the transaction transfers.
tokenIdOf(transfer) ==
    IF transfer.transactionHash = FirstHash THEN "42" ELSE "7"

\* The sale events of the followed transfer: protocol_address missing/empty.
BlurFacts(sale) ==
    [tokenId : {tokenIdOf(sale)}, protocolAddress : {"absent", "", "  "}]

\* saleData of a sale the matcher has found: the sales of the other events
\* were made through the protocol of OpenSea.
FactsOf(sale) ==
    IF sale.id = Followed THEN BlurFacts(sale)
    ELSE [tokenId : {tokenIdOf(sale)},
          protocolAddress : ProtocolAddresses \ {"absent", "", "  "}]

UntouchedEndToEnd == <<matcher, ann, rateCache, listingBot, connection,
                       nameBlock, pricing>>

FollowedReceiptReturned(l, result) ==
    /\ tloop[l].pc = "receipt"
    /\ tloop[l].transfer.id = Followed => result = "success"
    /\ ReceiptReturned(l, result)

\* fetchSaleDataFromOpenSea has returned and, with a sale found,
\* announceMoonCatSale is called with its tokenId and protocolAddress.
SaleDataReturned(s, result, facts) ==
    /\ sloop[s].pc = "lookup"
    /\ sloop[s].sale.id = Followed => result = "match"
    /\ facts \in FactsOf(sloop[s].sale)
    /\ LookupStep(s, result)
    /\ saleFacts' = IF SaleFound(fetchSaleDataFromOpenSea(result))
                    THEN facts ELSE saleFacts
    /\ UNCHANGED <<announcement, UntouchedEndToEnd>>

FollowedRateReturned(s, rate) ==
    /\ sloop[s].pc = "rate"
    /\ sloop[s].sale.id = Followed => rate = "rate"
    /\ RateReturned(s, rate)

\* The lookups of announceMoonCatSale have returned; with all of them found
\* the message is composed with the label and the link of the marketplace.
MessageComposed(s, details) ==
    /\ sloop[s].pc = "details"
    /\ sloop[s].sale.id = Followed => details = "ok"
    /\ DetailsStep(s, details)
    /\ announcement' =
          IF AnnouncerProceeds(details)
          THEN [usdPrice |-> usdPriceOf("rate"),
                marketplaceName |->
                    marketplaceNameOf(ProtocolArgument(saleFacts)),
                marketplaceUrl |->
                    marketplaceUrlOf(ProtocolArgument(saleFacts),
                                     saleFacts.tokenId)]
          ELSE announcement
    /\ UNCHANGED <<saleFacts, UntouchedEndToEnd>>

FollowedPostReturned(s, delivered) ==
    /\ sloop[s].pc = "post"
    /\ sloop[s].sale.id = Followed => delivered
    /\ PostReturned(s, delivered)

EndToEndInit ==
    /\ variant = "part_001"
    /\ PipelineStart
    /\ MatcherIdle
    /\ AnnouncerIdle
    /\ RateCacheStart
    /\ ListingBotStart
    /\ ProviderStart
    /\ HandlerStart
    /\ PricingStart

TransferArrives ==
    \E hash \in TxHashes, contract \in WatchedContracts :
        TransferEvent(hash, contract)

TransferSettles == \E l \in Ids : SettleDelayElapsed(l)

ReceiptArrives ==
    \E l \in Ids, result \in ReceiptResults : FollowedReceiptReturned(l, result)

SaleDataArrives ==
    \E s \in Ids, result \in LookupResults, facts \in SaleFactsSet :
        SaleDataReturned(s, result, facts)

RateArrives ==
    \E s \in Ids, rate \in {"rate", "null"} : FollowedRateReturned(s, rate)

DetailsArrive ==
    \E s \in Ids, details \in DetailResults : MessageComposed(s, details)

PostAnswered ==
    \E s \in Ids, delivered \in BOOLEAN : FollowedPostReturned(s, delivered)

PostFailureDelayEnds == \E s \in Ids : PostFailureDelayElapsed(s)

PacingDelayEnds == \E s \in Ids : PacingDelayElapsed(s)

EndToEndNext ==
    \/ TransferArrives
    \/ TransferSettles
    \/ ReceiptArrives
    \/ SaleDataArrives
    \/ RateArrives
    \/ DetailsArrive
    \/ PostAnswered
    \/ PostFailureDelayEnds
    \/ PacingDelayEnds

\* Every timer fires and every awaited call comes back.
EndToEndSpec ==
    /\ EndToEndInit
    /\ [][EndToEndNext]_vars
    /\ WF_vars(TransferSettles)
    /\ WF_vars(ReceiptArrives)
    /\ WF_vars(SaleDataArrives)
    /\ WF_vars(RateArrives)
    /\ WF_vars(DetailsArrive)
    /\ WF_vars(PostAnswered)
    /\ WF_vars(PostFailureDelayEnds)
    /\ WF_vars(PacingDelayEnds)

----------------------------------------------------------------------------
\* part_001 with a call of the sales drain that never returns: the request
\* of the matcher, of the rate, of the announcer's lookups or a webhook POST
\* hangs, and the invocation of processSalesQueue stays at its await.

Awaiting == {"lookup", "rate", "details", "post"}

SalesCallHangs(s) ==
    /\ sloop[s].pc \in Awaiting
    /\ \A other \in Ids : sloop[other].pc # "stuck"
    /\ sloop' = [sloop EXCEPT ![s].pc = "stuck"]
    /\ UNCHANGED <<others, variant, queues, isProcessingTransfers,
                   isProcessingSales, tloop, events, history>>

StuckInit ==
    /\ variant = "part_001"
    /\ PipelineStart
    /\ MatcherIdle
    /\ AnnouncerIdle
    /\ RateCacheStart
    /\ ListingBotStart
    /\ ProviderStart
    /\ HandlerStart
    /\ PricingStart

StuckNext ==
    \/ Next
    \/ \E s \in Ids : SalesCallHangs(s)

\* The timer of the transfer drain fires and the receipt request comes back;
\* nothing is asked of the calls of the sales drain.
StuckSpec ==
    /\ StuckInit
    /\ [][StuckNext]_vars
    /\ WF_vars(\E l \in Ids : SettleDelayElapsed(l))
    /\ WF_vars(\E l \in Ids, result \in ReceiptResults :
                  ReceiptReturned(l, result))

----------------------------------------------------------------------------
\* const ethPrice = paymentToken.quantity / (10 ** paymentToken.decimals):
\* the arithmetic of Number, the IEEE 754 double. A natural number of any
\* size is the sequence of its binary digits, the highest first; a double is
\* a significand of 53 binary digits and the exponent of its lowest digit
\* (zero has no digits). Subnormal numbers and infinities are out of the
\* reach of the payments below.

SignificandBits == 53

\* The largest quantity's digits and the largest decimals looked at.
MaxQuantity == 60
MaxDecimals == 6

RECURSIVE Pow2(_)
Pow2(k) == IF k = 0 THEN 1 ELSE 2 * Pow2(k - 1)

RECURSIVE TenTo(_)
TenTo(k) == IF k = 0 THEN 1 ELSE 10 * TenTo(k - 1)

\* The width binary digits of n < 2^width.
Digits(n, width) == [i \in 1..width |-> (n \div Pow2(width - i)) % 2]

Zeros(n) == [i \in 1..n |-> 0]

\* Without the leading zeros.
Strip(b) ==
    IF \A i \in 1..Len(b) : b[i] = 0 THEN <<>>
    ELSE SubSeq(b, CHOOSE i \in 1..Len(b) :
                       b[i] = 1 /\ \A j \in 1..(i - 1) : b[j] = 0, Len(b))

\* The digits of an integer below 2^31.
NatOf(n) == Strip(Digits(n, 31))

\* The integer of at most 30 digits.
RECURSIVE ValueOf(_)
ValueOf(b) ==
    IF b = <<>> THEN 0
    ELSE 2 * ValueOf(SubSeq(b, 1, Len(b) - 1)) + b[Len(b)]

\* a <= b for naturals without leading zeros.
AtMost(a, b) ==
    IF Len(a) # Len(b) THEN Len(a) < Len(b)
    ELSE \/ a = b
         \/ LET i == CHOOSE k \in 1..Len(a) :
                         a[k] # b[k] /\ \A j \in 1..(k - 1) : a[j] = b[j]
            IN a[i] < b[i]

\* b + 1 for b with a zero digit, b - 1 for b with a one (digits kept).
Successor(b) ==
    LET j == CHOOSE k \in 1..Len(b) :
                 b[k] = 0 /\ \A i \in (k + 1)..Len(b) : b[i] = 1
    IN [i \in 1..Len(b) |-> IF i < j THEN b[i] ELSE IF i = j THEN 1 ELSE 0]

Predecessor(b) ==
    LET j == CHOOSE k \in 1..Len(b) :
                 b[k] = 1 /\ \A i \in (k + 1)..Len(b) : b[i] = 0
    IN [i \in 1..Len(b) |-> IF i < j THEN b[i] ELSE IF i = j THEN 0 ELSE 1]

\* b * c + carry for c, carry < 2^10, twenty digits at a time from the low
\* end; the digits are not stripped.
RECURSIVE TimesFrom(_, _, _)
TimesFrom(b, c, carry) ==
    IF b = <<>> THEN Digits(carry, 10)
    ELSE LET cut == IF Len(b) > 20 THEN Len(b) - 20 ELSE 0
             low == SubSeq(b, cut + 1, Len(b))
             v == ValueOf(low) * c + carry
         IN TimesFrom(SubSeq(b, 1, cut), c, v \div Pow2(20))
                \o Digits(v % Pow2(20), 20)

TimesSmall(b, c) == Strip(TimesFrom(b, c, 0))

\* b * 10^k
RECURSIVE TimesTenTo(_, _)
TimesTenTo(b, k) ==
    IF k = 0 THEN b
    ELSE IF k >= 3 THEN TimesTenTo(TimesSmall(b, 1000), k - 3)
    ELSE TimesSmall(b, TenTo(k))

Zero == [sig |-> <<>>, exp |-> 0]

\* The double nearest to b * 2^e (to a little more than b * 2^e, when
\* inexact is set), a tie going to the even significand.
RoundToDouble(b, e, inexact) ==
    IF b = <<>> THEN Zero
    ELSE IF Len(b) <= SignificandBits
    THEN [sig |-> b \o Zeros(SignificandBits - Len(b)),
          exp |-> e - (SignificandBits - Len(b))]
    ELSE LET drop == Len(b) - SignificandBits
             kept == SubSeq(b, 1, SignificandBits)
             half == b[SignificandBits + 1] = 1
             more == inexact
                       \/ \E i \in (SignificandBits + 2)..Len(b) : b[i] = 1
             up == half /\ (more \/ kept[SignificandBits] = 1)
         IN IF ~up THEN [sig |-> kept, exp |-> e + drop]
            ELSE IF \A i \in 1..SignificandBits : kept[i] = 1
            THEN [sig |-> <<1>> \o Zeros(SignificandBits - 1),
                  exp |-> e + drop + 1]
            ELSE [sig |-> Successor(kept), exp |-> e + drop]

\* Number(n) of a natural number.
ToNumber(b) == RoundToDouble(b, 0, FALSE)

\* The remainder of n / t after k groups of seven binary places.
RECURSIVE RemainderAt(_, _, _)
RemainderAt(n, t, k) ==
    IF k = 0 THEN n % t ELSE (RemainderAt(n, t, k - 1) * 128) % t

\* Seven digits to a group, twelve groups: enough for the 53 digits of the
\* significand and the one after them, behind at most 24 zeros.
Places == 7 * 12

\* n / t of two integers that are doubles, t at most 10^7: the binary
\* expansion of the quotient by long division, then rounded.
Quotient(n, t) ==
    LET group(k) == (RemainderAt(n, t, k - 1) * 128) \div t
        fraction == [i \in 1..Places |->
                        Digits(group(((i - 1) \div 7) + 1), 7)[((i - 1) % 7) + 1]]
    IN RoundToDouble(Strip(NatOf(n \div t) \o fraction), -Places,
                     RemainderAt(n, t, Places \div 7) # 0)

\* x * 10^k of a double: 10^k is a double for k up to 22, so that the
\* product is the exact product, rounded.
TimesPowerOfTen(x, k) ==
    IF x = Zero THEN Zero
    ELSE RoundToDouble(TimesTenTo(x.sig, k), x.exp, FALSE)

\* A quantity is its digits and the zeros that follow them:
\* 1500000000000000000 is 15 followed by 17 zeros.
QuantityOf(p) == TimesTenTo(NatOf(p.digits), p.zeros)

\* Number(quantity) is the quantity itself.
IsExact(p) ==
    LET q == QuantityOf(p)
    IN \A i \in (SignificandBits + 1)..Len(q) : q[i] = 0

\* payment records of the marketplace: quantity and decimals.
Payments ==
    {p \in [digits : 0..MaxQuantity, zeros : {0}, decimals : 0..MaxDecimals]
             \cup [digits : {15, 25}, zeros : {17}, decimals : {18, 12}] :
        IsExact(p)}

\* A seeded fault: the quantity in base units is taken for the price.
ethPriceInBaseUnits(p) == ToNumber(QuantityOf(p))

\* paymentToken.quantity / (10 ** paymentToken.decimals). Both operands are
\* doubles, so that the quotient that is rounded is
\* digits / 10^(decimals - zeros).
ethPriceOf(p) ==
    IF p.decimals >= p.zeros
    THEN Quotient(p.digits, TenTo(p.decimals - p.zeros))
    ELSE ToNumber(TimesTenTo(NatOf(p.digits), p.zeros - p.decimals))

\* The sale event found has this payment: the price is computed.
PriceComputed ==
    /\ ethPrice = NotComputed
    /\ ethPrice' = ethPriceOf(payment)
    /\ UNCHANGED <<payment, variant, pipeline, matcher, announcer, rateCache,
                   listingBot, connection, nameBlock>>

\* The next sale event is looked at.
NextPayment(p) ==
    /\ ethPrice # NotComputed
    /\ payment' = p
    /\ ethPrice' = NotComputed
    /\ UNCHANGED <<variant, pipeline, matcher, announcer, rateCache,
                   listingBot, connection, nameBlock>>

PriceInit ==
    /\ variant = "part_001"
    /\ PipelineStart
    /\ MatcherIdle
    /\ AnnouncerIdle
    /\ RateCacheStart
    /\ ListingBotStart
    /\ ProviderStart
    /\ HandlerStart
    /\ payment \in Payments
    /\ ethPrice = NotComputed

PriceNext ==
    \/ PriceComputed
    \/ \E p \in Payments : NextPayment(p)

PriceSpec == PriceInit /\ [][PriceNext]_vars

----------------------------------------------------------------------------
\* Notions the properties are stated with.

\* The invocations that are inside their while loop.
ActiveTransferLoops == {l \in Ids : tloop[l].pc \in {"settle", "receipt"}}
ActiveSalesLoops == {s \in Ids : sloop[s].pc # "none"}

Delivered == 1..events

InQueue(queue, id) == \E i \in 1..Len(queue) : queue[i].id = id

\* The record is the one a transfer loop / a sales loop is working on.
InTransferLoop(id) == \E l \in Ids : tloop[l].transfer.id = id
InSalesLoop(id) == \E s \in Ids : sloop[s].sale.id = id

\* The receipt check of record r was made for r's own hash and succeeded.
Confirmed(r) ==
    receiptOf[r.id] = [hash |-> r.transactionHash, result |-> "success"]

----------------------------------------------------------------------------
\* C1: in every deployment, every record on salesQueue, and every record
\* that was ever pushed on it, is one whose own transaction hash was asked
\* of fetchTransactionReceipt and got a receipt with a true status.
C1_SalesQueueConfirmed ==
    /\ \A i \in 1..Len(salesQueue) : Confirmed(salesQueue[i])
    /\ \A id \in Ids :
          promoted[id] > 0 => /\ receiptOf[id].result = "success"
                              /\ receiptOf[id].hash \in TxHashes

\* C1 witness: a confirmed record waits on salesQueue after another record
\* failed its receipt check.
C1_Witness ==
    /\ Len(salesQueue) > 0
    /\ \E id \in Delivered : receiptOf[id].result = "failure"

\* C2: in part_001 a webhook POST is issued for a record only after its
\* receipt check succeeded and fetchSaleDataFromOpenSea returned sale data
\* for it.
C2_PostOnlyConfirmedAndMatched ==
    variant = "part_001" =>
        \A id \in Ids :
            posts[id] > 0 => /\ receiptOf[id].result = "success"
                             /\ lookupOf[id] = "saleData"

\* C2 witness: a POST was issued in part_001.
C2_Witness == variant = "part_001" /\ \E id \in Delivered : posts[id] > 0

\* C3: in part_001 at most one invocation of processTransferQueue and at
\* most one of processSalesQueue is inside its while loop.
C3_OneDrainPerQueue ==
    variant = "part_001" =>
        /\ Cardinality(ActiveTransferLoops) <= 1
        /\ Cardinality(ActiveSalesLoops) <= 1

\* C3 witness: the invocation started by the first event is working on the
\* third record (the later events arrived during its drain), and a record
\* was promoted while the sales loop was busy with another.
C3_Witness ==
    /\ variant = "part_001"
    /\ tloop[1].transfer.id = 3
    /\ isProcessingSales /\ Len(salesQueue) = 1

\* C4 as claimed: in the deployments without guard flags (bottybot.mjs,
\* part_000) Transfer events pushed in rapid succession are drained by one
\* loop: processTransferQueue is not entered again while it is running.
C4_OneTransferDrainUnguarded ==
    variant \in {"bottybot", "part_000"} =>
        Cardinality(ActiveTransferLoops) <= 1

\* C5: in part_001 no record is stranded: when no transfer loop is active
\* transferQueue is empty, when no sales loop is active salesQueue is empty,
\* and each guard flag is set exactly while its loop is active.
C5_NoStrandedRecord ==
    variant = "part_001" =>
        /\ ActiveTransferLoops = {} => transferQueue = <<>>
        /\ ActiveSalesLoops = {} => salesQueue = <<>>
        /\ isProcessingTransfers <=> ActiveTransferLoops # {}
        /\ isProcessingSales <=> ActiveSalesLoops # {}

\* C5 witness: a record was pushed on transferQueue while the drain was in
\* progress, and the sales loop is running too.
C5_Witness ==
    /\ variant = "part_001"
    /\ Len(transferQueue) = 1 /\ ActiveTransferLoops # {}
    /\ ActiveSalesLoops # {}

\* The sales loop has finished its work on the record.
SaleFinished(id) == drained[id] > 0 /\ ~InSalesLoop(id)

\* C6 as claimed: in part_001, for every candidate the sales loop has
\* finished with, a webhook POST was issued if and only if
\* fetchSaleDataFromOpenSea returned sale data.
C6_AnnouncedIffMatched ==
    variant = "part_001" =>
        \A id \in Ids :
            SaleFinished(id) => (posts[id] > 0 <=> lookupOf[id] = "saleData")

\* C6 amended: in part_001 the announcer is called for a drained candidate
\* if and only if fetchSaleDataFromOpenSea returned sale data, and a webhook
\* POST is issued if and only if, in addition, the announcer obtained the
\* rate, the name data and the image URL and the name is not blocked.
C6_AnnouncedIffMatchedAndEnriched ==
    variant = "part_001" =>
        \A id \in Ids :
            /\ drained[id] > 0 /\ lookupOf[id] # "none" =>
                  (announcerCalls[id] = 1 <=> lookupOf[id] = "saleData")
            /\ posts[id] > 0 <=> (lookupOf[id] = "saleData" /\ enriched[id])
            /\ lookupOf[id] = "none" => announcerCalls[id] = 0

\* C6 witness: of two matched candidates the sales loop has finished with,
\* one was posted and one was not.
C6_Witness ==
    /\ variant = "part_001"
    /\ \E a, b \in Delivered :
          /\ SaleFinished(a) /\ SaleFinished(b)
          /\ lookupOf[a] = "saleData" /\ posts[a] > 0
          /\ lookupOf[b] = "saleData" /\ posts[b] = 0

\* C7: in every deployment a delivered record is either still on
\* transferQueue or was shifted off it exactly once, it is pushed on
\* salesQueue and shifted off it at most once, an announcer is called for
\* it at most once, and transferQueue is empty when no loop drains it.
C7_ConsumedOnce ==
    /\ \A id \in Delivered :
          /\ dequeued[id] = IF InQueue(transferQueue, id) THEN 0 ELSE 1
          /\ promoted[id] <= 1
          /\ drained[id] <= promoted[id]
          /\ announcerCalls[id] <= drained[id]
    /\ \A id \in Ids \ Delivered : dequeued[id] = 0 /\ promoted[id] = 0
    /\ ActiveTransferLoops = {} => transferQueue = <<>>

\* C7 witness: in bottybot.mjs two sales loops and a transfer loop run at
\* once, and the announcer was called once for each of two records.
C7_Witness ==
    /\ variant = "bottybot"
    /\ Cardinality(ActiveTransferLoops) = 1
    /\ Cardinality(ActiveSalesLoops) = 2
    /\ \E a, b \in Delivered : a # b /\ announcerCalls[a] = 1
                                      /\ announcerCalls[b] = 1

\* The records of the queue are in the order of their Transfer events.
InPushOrder(queue) ==
    \A i, j \in 1..Len(queue) : i < j => queue[i].id < queue[j].id

\* C8: in part_001 each queue is processed first in, first out. While the
\* transfer loop works on record b, the receipt check of every record
\* pushed before b is over and the records still queued were pushed after
\* b; salesQueue holds the promoted records in the order of their events;
\* while the sales loop works on b, the sales loop has finished with every
\* promoted record that was pushed before b.
C8_Fifo ==
    variant = "part_001" =>
        /\ InPushOrder(transferQueue) /\ InPushOrder(salesQueue)
        /\ \A l \in ActiveTransferLoops :
              /\ \A a \in Delivered :
                    a < tloop[l].transfer.id => receiptOf[a].result # "none"
              /\ \A i \in 1..Len(transferQueue) :
                    tloop[l].transfer.id < transferQueue[i].id
        /\ \A s \in ActiveSalesLoops :
              /\ \A a \in Delivered :
                    a < sloop[s].sale.id /\ promoted[a] > 0 => SaleFinished(a)
              /\ \A i \in 1..Len(salesQueue) :
                    sloop[s].sale.id < salesQueue[i].id

\* C8 witness: three records were promoted; the first was posted, the sales
\* loop has finished with the second and works on the third.
C8_Witness ==
    /\ variant = "part_001"
    /\ \A id \in 1..3 : promoted[id] = 1
    /\ posts[1] > 0 /\ SaleFinished(2)
    /\ \E s \in Ids : sloop[s].sale.id = 3

\* C9: in every deployment a record whose receipt check failed (receipt
\* missing, status false, or the request threw) was shifted off
\* transferQueue once and is on neither queue and in no loop again; it was
\* never promoted and nothing was announced for it.
C9_DroppedNeverRetried ==
    \A id \in Ids :
        receiptOf[id].result = "failure" =>
            /\ dequeued[id] = 1
            /\ ~InQueue(transferQueue, id) /\ ~InTransferLoop(id)
            /\ ~InQueue(salesQueue, id) /\ ~InSalesLoop(id)
            /\ promoted[id] = 0 /\ drained[id] = 0
            /\ announcerCalls[id] = 0 /\ posts[id] = 0

\* C9 witness: the first record failed its receipt check, later records
\* were processed and posted, and every loop has returned.
C9_Witness ==
    /\ receiptOf[1].result = "failure"
    /\ events = MaxEvents
    /\ ActiveTransferLoops = {} /\ ActiveSalesLoops = {}
    /\ \E id \in Delivered : posts[id] > 0

\* The step in which the receipt check of the record of invocation l fails.
ReceiptFails(l) ==
    /\ tloop[l].pc = "receipt"
    /\ receiptOf[tloop[l].transfer.id].result = "none"
    /\ receiptOf'[tloop[l].transfer.id].result = "failure"

\* After the step, invocation l is in its loop with the next queued record
\* and the rest of the queue is untouched; it has returned only if the
\* queue was empty.
KeepsDraining(l) ==
    IF transferQueue = <<>>
    THEN tloop'[l] = NotStarted /\ transferQueue' = <<>>
    ELSE /\ tloop'[l].pc = "settle"
         /\ tloop'[l].transfer = Head(transferQueue)
         /\ transferQueue' = Tail(transferQueue)

FailureKeepsDraining ==
    variant \in {"part_001", "part_000"} =>
        \A l \in Ids : ReceiptFails(l) => KeepsDraining(l)

\* C10: in part_001 and part_000, the step in which a record's receipt
\* check fails (also by a thrown error) leaves the same invocation of
\* processTransferQueue inside its loop with the next queued record; it
\* returns only when the queue is empty.
C10_FailureKeepsDraining == [][FailureKeepsDraining]_vars

\* C10 witness: in part_001 the invocation started by the first event has
\* seen the receipt checks of the first two records fail and is checking
\* the third.
C10_Witness ==
    /\ variant = "part_001"
    /\ receiptOf[1].result = "failure" /\ receiptOf[2].result = "failure"
    /\ tloop[1].pc = "receipt" /\ tloop[1].transfer.id = 3

\* The step in which invocation s of processSalesQueue ends an iteration.
SalesIterationEnds(s) ==
    /\ sloop[s].pc # "none"
    /\ sloop'[s] # sloop[s]
    /\ sloop'[s].pc \in {"lookup", "none"}

\* After the step, invocation s is in its loop with the next queued
\* candidate and the rest of the queue is untouched; it has returned only if
\* the queue was empty, and then part_001 has cleared isProcessingSales.
KeepsDrainingSales(s) ==
    IF salesQueue = <<>>
    THEN /\ sloop'[s] = Idle /\ salesQueue' = <<>>
         /\ HasGuardFlags => ~isProcessingSales'
    ELSE /\ sloop'[s].pc = "lookup"
         /\ sloop'[s].sale = Head(salesQueue)
         /\ salesQueue' = Tail(salesQueue)

\* A step that leaves the announcer or the delay of a failed POST leads to
\* the pacing delay or to the loop's next test, and every step that ends an
\* iteration keeps the loop draining.
SaleErrorKeepsDraining ==
    variant \in {"part_001", "bottybot"} =>
        \A s \in Ids :
            /\ SalesIterationEnds(s) => KeepsDrainingSales(s)
            /\ sloop[s].pc \in {"rate", "details", "post", "postFailed"} =>
                  sloop'[s].pc \in {"rate", "details", "post", "postFailed",
                                    "pace", "lookup"}
                  \/ (sloop'[s] = Idle /\ salesQueue = <<>>)

\* C11: in part_001 and bottybot.mjs an exception raised while a candidate
\* is matched or announced (a failed webhook POST included) ends that
\* candidate's iteration only: the same invocation of processSalesQueue goes
\* on with the next queued candidate, and returns only on an empty queue,
\* part_001 with isProcessingSales cleared.
C11_SaleErrorKeepsDraining == [][SaleErrorKeepsDraining]_vars

\* C11 witness: in part_001 the catch of processSalesQueue ended the
\* iteration of the first candidate; the same invocation is looking up the
\* second, and the third is queued.
C11_Witness ==
    /\ variant = "part_001"
    /\ \E s \in Ids : /\ sloop[s].caught /\ sloop[s].pc = "lookup"
                       /\ sloop[s].sale.id = 2
    /\ drained[1] = 1 /\ Len(salesQueue) = 1

\* C12: in part_001 sendToDiscord attempts each of the two webhooks on its
\* own: a candidate the sales loop has finished with, and for which a POST
\* was issued, had a POST issued to each webhook.
C12_EachWebhookAttempted ==
    variant = "part_001" =>
        \A id \in Ids :
            SaleFinished(id) /\ posts[id] > 0 => posts[id] = Webhooks

\* The first event of the window that is a sale of the token by the seller
\* with a buyer and a payment record, 0 when there is none.
FirstSaleWithPayment ==
    LET hits == {i \in 1..Len(response.asset_events) :
                    /\ IsSaleOf(response.asset_events[i], query.tokenId,
                                query.sellerAddress)
                    /\ response.asset_events[i].payment}
    IN IF hits = {} THEN 0
       ELSE CHOOSE i \in hits : \A j \in hits : i <= j

\* C13: fetchSaleDataFromOpenSea returns the sale data of the first event of
\* the window whose identifier is the tokenId, whose seller is the
\* sellerAddress up to case, and which has a buyer and a payment record; it
\* returns null only when the window has no such event.
C13_FirstCompleteEventWins ==
    response.kind = "events" =>
        matchResult = IF FirstSaleWithPayment = 0 THEN Null
                      ELSE SaleDataFrom(FirstSaleWithPayment)

\* C14: fetchSaleDataFromOpenSea never raises to its caller, and it returns
\* null when the request failed, when the response has no asset_events
\* array and when the array is empty.
C14_MatcherNeverRaises ==
    response # NoResponse =>
        /\ matchResult \in {Null} \cup {SaleDataFrom(i) : i \in 1..MaxWindow}
        /\ response.kind \in {"throws", "noArray"} => matchResult = Null
        /\ response.kind = "events" /\ response.asset_events = <<>> =>
              matchResult = Null

\* C14 witness: in part_001 the response had no asset_events array and the
\* call has returned null.
C14_Witness ==
    /\ variant = "part_001"
    /\ response.kind = "noArray"
    /\ matchResult = Null

\* The label and the link the stated classification gives a sale.
LabelledBy(protocolAddress, tokenId) ==
    IF protocolAddress \in {"absent", "", "  "}
    THEN /\ announcement.marketplaceName = "Blur"
         /\ announcement.marketplaceUrl =
               [site |-> "blur.io", tokenId |-> tokenId]
    ELSE /\ announcement.marketplaceName = "OpenSea"
         /\ announcement.marketplaceUrl =
               [site |-> "opensea.io", tokenId |-> tokenId]

\* C15: in part_001 and bottybot.mjs a sale whose protocolAddress is
\* missing, empty or blanks only is announced as "Blur" with a blur.io link
\* of the token, and a sale with any other protocolAddress as "OpenSea" with
\* an opensea.io link of the token.
C15_MarketplaceLabel ==
    variant \in {"part_001", "bottybot"}
        /\ announcement # NoAnnouncement =>
            LabelledBy(saleFacts.protocolAddress, saleFacts.tokenId)

\* C15 witness: part_001 has announced a sale whose protocolAddress is
\* blanks only as "Blur", and the call has returned.
C15_Witness ==
    /\ variant = "part_001"
    /\ saleFacts.protocolAddress = "  "
    /\ announcement.marketplaceName = "Blur"
    /\ ann.pc = "returned"

\* C16: in part_003 the announcer classifies on the protocol address the
\* matcher extracted: a matched sale with a protocol_address is announced
\* as "OpenSea" with its link, one without as "Blur" with its link.
C16_MarketplaceLabelPart003 ==
    variant = "part_003" /\ announcement # NoAnnouncement =>
        LabelledBy(saleFacts.protocolAddress, saleFacts.tokenId)

\* C17: in part_001 and bottybot.mjs nothing is announced for a sale for
\* which getEthToUsdConversionRate returned null or a falsy rate.
C17_NoAnnouncementWithoutRate ==
    variant \in {"part_001", "bottybot"} /\ ann.rate \in {"null", "zero"} =>
        /\ announcement = NoAnnouncement
        /\ ann.pc = "returned"

\* C17 witness: in bottybot.mjs the rate lookup returned null and the
\* announcer has returned without an announcement.
C17_Witness ==
    /\ variant = "bottybot"
    /\ ann.rate = "null" /\ ann.pc = "returned"
    /\ announcement = NoAnnouncement

\* C18: in part_003 and botbotbot.mjs nothing is announced for a sale for
\* which the rate lookup returned null.
C18_NoAnnouncementWithoutRateOther ==
    variant \in {"part_003", "botbotbot"} /\ ann.rate = "null" =>
        announcement = NoAnnouncement

SameListing(a, b) == a.maker = b.maker /\ a.identifier = b.identifier

\* C20: in the listing bot of bottybot.mjs, once a listing of a seller and
\* a token has been announced at time t, no second 'Listed' announcement
\* of the same seller and token is delivered before t + 24 hours, and the
\* cooldown table holds back a listing only within 24 hours of a delivered
\* announcement of the same seller and token.
C20_OneListingPerDay ==
    /\ \A i, j \in DOMAIN listed :
           i < j /\ SameListing(listed[i], listed[j])
               => listed[j].at >= listed[i].at + ONE_DAY_MS
    /\ \A held \in suppressed :
           \E i \in DOMAIN listed :
               /\ SameListing(listed[i], held)
               /\ listed[i].at <= held.at
               /\ held.at < listed[i].at + ONE_DAY_MS

\* The listings that poll k pushed on LISTINGS_QUEUE.
EnqueuedBy(k) == {enqueued[k].listings[i] : i \in DOMAIN enqueued[k].listings}

\* C21: in the listing bot of bottybot.mjs no stale listing is announced on
\* startup: whatever the initial poll came to (listings, none, a failure),
\* no listing event made more than one hour before the start of the bot
\* is ever pushed on LISTINGS_QUEUE, and the initial run pushes at most 20
\* listings of a collection.
C21_NoStaleListingEnqueued ==
    /\ \A k \in DOMAIN enqueued : \A listing \in EnqueuedBy(k) :
           listing.event_timestamp * 1000 >= StartedAt * 1000 - ONE_HOUR_MS
    /\ enqueued # <<>> => Len(enqueued[1].listings) <= InitialRunLimit

\* lastProcessedTimestamp does not go down in a step.
TimestampGoesForward == lastProcessedTimestamp' >= lastProcessedTimestamp

\* What the polls after the initial one pushed is newer than
\* lastProcessedTimestamp was before the poll, and no event was pushed by
\* two polls.
EnqueuedOnce ==
    /\ \A k \in DOMAIN enqueued : \A listing \in EnqueuedBy(k) :
           k > 1 => listing.event_timestamp > enqueued[k].before
    /\ \A k, m \in DOMAIN enqueued :
           k # m => EnqueuedBy(k) \cap EnqueuedBy(m) = {}

\* C22: in the listing bot of bottybot.mjs progress is forward-only:
\* lastProcessedTimestamp never decreases over the polls (failed polls and
\* polls without events among them), every poll after the initial one
\* pushes only events whose event_timestamp is greater than
\* lastProcessedTimestamp was before it, and no event is pushed by two
\* polls.
C22_ForwardOnlyProgress ==
    /\ [][TimestampGoesForward]_vars
    /\ []EnqueuedOnce

\* The order is a key of PROCESSED_LISTINGS.
Processed(orderHash) ==
    \E i \in DOMAIN PROCESSED_LISTINGS : PROCESSED_LISTINGS[i] = orderHash

\* PROCESSED_LISTINGS changes only by a new key at its end, and by the loss
\* of its oldest key when that made 41.
OldestEvicted ==
    PROCESSED_LISTINGS' # PROCESSED_LISTINGS =>
        \E orderHash \in {PROCESSED_LISTINGS'[Len(PROCESSED_LISTINGS')]} :
            /\ ~Processed(orderHash)
            /\ PROCESSED_LISTINGS' =
                   IF Len(PROCESSED_LISTINGS) < ProcessedLimit
                   THEN Append(PROCESSED_LISTINGS, orderHash)
                   ELSE Append(Tail(PROCESSED_LISTINGS), orderHash)

\* The listing an invocation of processListingsQueue hands to the announcer
\* when it comes from the head of its loop is not of an order that was in
\* PROCESSED_LISTINGS.
ProcessedSkipped ==
    /\ \A d \in Polls :
           ListingDelayElapsed(d) /\ dloop'[d].pc # "none"
               => ~Processed(dloop'[d].listing.order_hash)
    /\ \A data \in ManyAssetEvents :
           ListingsFetched(data) /\ dloop'[polls'] # dloop[polls']
               => ~Processed(dloop'[polls'].listing.order_hash)

\* C23: in the listing bot of bottybot.mjs PROCESSED_LISTINGS holds at most
\* 40 order hashes whenever the drain yields control, the hash evicted is
\* always the oldest one inserted, and a listing whose order_hash is in the
\* set when it is dequeued is skipped and not announced.
C23_ProcessedListingsBounded ==
    /\ [](Len(PROCESSED_LISTINGS) <= ProcessedLimit)
    /\ [][OldestEvicted]_vars
    /\ [][ProcessedSkipped]_vars

\* The set is full, the oldest order has been evicted, the second event of
\* the newest order has been skipped and the second event of the oldest
\* order has been taken up.
C23_Witness ==
    /\ Len(PROCESSED_LISTINGS) = ProcessedLimit
    /\ ~Processed(ToString(1))
    /\ Processed(ToString(MaxOrders))
    /\ LISTINGS_QUEUE = <<>>
    /\ \E d \in Polls : /\ dloop[d].pc = "lookups"
                         /\ dloop[d].listing.order_hash = ToString(1)

\* A reconnect timer is scheduled in the step.
TimerScheduled == reconnectTimers' > reconnectTimers

\* C24: in createWeb3Provider of part_001 retryCount never exceeds
\* maxRetries (10), no reconnect timer is scheduled while retryCount is at
\* maxRetries or above, at most one reconnect timer is pending at any time,
\* and every 'connect' sets retryCount to 0.
C24_RetriesBounded ==
    /\ [](retryCount <= maxRetries)
    /\ [][TimerScheduled => retryCount < maxRetries]_vars
    /\ [](reconnectTimers <= 1)
    /\ [][\A p \in Providers : ProviderConnected(p) => retryCount' = 0]_vars

\* The transport is down: the provider in use has failed or ended.
TransportDown == wsProviders[Len(wsProviders)] \in {"closing", "ended"}

\* C25: in createWeb3Provider of part_001, while the transport stays down
\* the adapter keeps reconnecting: whenever the provider is found not
\* connected and retryCount is below maxRetries, a reconnect attempt is
\* eventually scheduled, also after an earlier attempt made a provider that
\* failed to connect; it gives up only at maxRetries. (Stated for the runs
\* that have not made MaxProviders providers yet.)
C25_KeepsReconnecting ==
    (TransportDown /\ retryCount < maxRetries
        /\ Len(wsProviders) < MaxProviders)
      ~> (reconnectTimers > 0)

\* C26: in part_001 a sale, a listing or a naming event whose display name
\* isBlockedFullName blocks is not announced: the handler has returned to its
\* caller, which goes on with the next item, and no webhook has been POSTed
\* to for the event.
C26_BlockedNameSuppressed ==
    (handler.name # NoName /\ isBlockedFullName(handler.name)) =>
        /\ handler.pc = "returned"
        /\ webhookPosts = <<>>

\* The sale announcer has returned at a name that the pattern blocks only by
\* taking the "@" as the last letter.
C26_Witness ==
    /\ handler.pc = "returned"
    /\ handler.kind = "sale"
    /\ handler.name = Str(<<"b", "o", "n", "n", "-", "@">>)
    /\ webhookPosts = <<>>

\* The announcement of the followed event is out: both webhooks have been
\* POSTed to once and have answered, and the message carries the Blur label
\* and the Blur link of the event's token.
FollowedAnnounced ==
    \E s \in Ids :
        /\ sloop[s].sale.id = Followed
        /\ sloop[s].pc = "pace"
        /\ posts[Followed] = Webhooks
        /\ announcement.marketplaceName = "Blur"
        /\ announcement.marketplaceUrl =
              [site |-> "blur.io", tokenId |-> tokenIdOf(sloop[s].sale)]

\* C27: in part_001 a Transfer event of the primary contract whose receipt
\* reports success, whose sale the matcher finds with an empty protocol
\* address and whose lookups and POSTs succeed is eventually announced at
\* each webhook, labelled "Blur" with a link of its tokenId, and no webhook
\* is POSTed to twice for it.
C27_EndToEndDelivery ==
    /\ (events >= Followed /\ ~SaleFinished(Followed)) ~> FollowedAnnounced
    /\ [](posts[Followed] <= Webhooks)

\* The followed event has been announced after an earlier event's POST had
\* failed.
C27_Witness ==
    /\ FollowedAnnounced
    /\ posts[1] = 1
    /\ drained[1] = 1

\* A call awaited in the sales drain has not returned and will not.
Stuck == \E s \in Ids : sloop[s].pc = "stuck"

\* While the call is stuck nothing is taken from salesQueue, no announcer is
\* called, nothing is POSTed and isProcessingSales stays set.
SalesDrainStalled ==
    Stuck =>
        /\ isProcessingSales /\ isProcessingSales'
        /\ drained' = drained
        /\ announcerCalls' = announcerCalls
        /\ posts' = posts
        /\ \A i \in 1..Len(salesQueue) : salesQueue'[i] = salesQueue[i]

\* The confirmed transfers the sales drain has not taken are in salesQueue.
ConfirmedAreQueued ==
    Stuck => \A id \in Ids :
        (promoted[id] > 0 /\ drained[id] = 0) => InQueue(salesQueue, id)

\* C28: in part_001 a call of the sales drain that never returns stalls the
\* sales drain alone: no later candidate is dequeued or announced and
\* isProcessingSales stays true, while every transfer that has arrived gets
\* its receipt checked and the confirmed ones are appended to salesQueue.
C28_StuckCallStallsOwnQueue ==
    /\ [][SalesDrainStalled]_vars
    /\ []ConfirmedAreQueued
    /\ Stuck ~> (\A id \in 1..events : receiptOf[id] # NoReceipt)

\* With the sales drain stuck, two later transfers have been confirmed and
\* wait in salesQueue, and the transfer drain has ended.
C28_Witness ==
    /\ Stuck
    /\ Len(salesQueue) = MaxEvents - 1
    /\ ~isProcessingTransfers


----------------------------------------------------------------------------
\* The doubles next to x, x not zero.
Up(x) ==
    IF \A i \in 1..SignificandBits : x.sig[i] = 1
    THEN [sig |-> <<1>> \o Zeros(SignificandBits - 1), exp |-> x.exp + 1]
    ELSE [sig |-> Successor(x.sig), exp |-> x.exp]

Down(x) ==
    IF \A i \in 2..SignificandBits : x.sig[i] = 0
    THEN [sig |-> [i \in 1..SignificandBits |-> 1], exp |-> x.exp - 1]
    ELSE [sig |-> Predecessor(x.sig), exp |-> x.exp]

OnePointFive == [sig |-> <<1, 1>> \o Zeros(SignificandBits - 2),
                 exp |-> 1 - SignificandBits]

Priced == ethPrice # NotComputed

\* No double is nearer to quantity / 10^decimals than x is: with
\* x = sig * 2^exp and exp <= 0,
\* (2 sig - 1) * 10^decimals <= quantity * 2^(1 - exp) <= (2 sig + 1) * 10^decimals.
IsNearestDouble(x, p) ==
    LET q == QuantityOf(p)
    IN IF q = <<>> THEN x = Zero
       ELSE /\ x # Zero
            /\ x.sig[1] = 1
            /\ Len(x.sig) = SignificandBits
            /\ x.exp <= 0
            /\ AtMost(TimesTenTo(Predecessor(x.sig \o <<0>>), p.decimals),
                      q \o Zeros(1 - x.exp))
            /\ AtMost(q \o Zeros(1 - x.exp),
                      TimesTenTo(x.sig \o <<1>>, p.decimals))

\* C29 as stated: the price is quantity / 10^decimals with the payment's own
\* decimals: 1500000000000000000 with 18 decimals is priced 1.5, and for
\* every payment the price times 10^decimals is the quantity again.
C29_PriceTimesPowerIsQuantity ==
    Priced =>
        /\ payment = [digits |-> 15, zeros |-> 17, decimals |-> 18]
               => ethPrice = OnePointFive
        /\ TimesPowerOfTen(ethPrice, payment.decimals)
               = ToNumber(QuantityOf(payment))

\* C29 amended: the price is the double nearest to quantity / 10^decimals
\* with the payment's own decimals, 1.5 for 1500000000000000000 with 18
\* decimals, and the price times 10^decimals is the quantity or a double
\* next to it.
C29_PriceIsNearestDouble ==
    Priced =>
        /\ IsNearestDouble(ethPrice, payment)
        /\ payment = [digits |-> 15, zeros |-> 17, decimals |-> 18]
               => ethPrice = OnePointFive
        /\ LET quantity == ToNumber(QuantityOf(payment))
               back == TimesPowerOfTen(ethPrice, payment.decimals)
           IN IF quantity = Zero THEN back = Zero
              ELSE back \in {quantity, Up(quantity), Down(quantity)}

\* A quantity of 7 with 2 decimals is priced, and the price times 100 is the
\* double after 7.
C29_Witness ==
    /\ payment = [digits |-> 7, zeros |-> 0, decimals |-> 2]
    /\ Priced
    /\ ethPrice # Zero
    /\ TimesPowerOfTen(ethPrice, 2) = Up(ToNumber(NatOf(7)))


----------------------------------------------------------------------------
\* The second call has returned, and the marketplace answered it as it
\* answered the first.
ReturnedTwice ==
    /\ previous # NoPrevious
    /\ matchResult # NotCalled
    /\ response = previous.response

----------------------------------------------------------------------------
\* The invocations of processListingsQueue that are inside their while loop.
ActiveDrains == {d \in Polls : dloop[d].pc # "none"}

\* C31: in the listing bot of bottybot.mjs at most one processListingsQueue
\* drain loop is active at any time, whatever the interleaving of the polls
\* with the awaits of the drain.
C31_OneListingDrain == Cardinality(ActiveDrains) <= 1

----------------------------------------------------------------------------
\* The listings a later poll has to capture: the events of the answer that
\* are newer than lastProcessedTimestamp was when the poll began.
NewListingsOf(poll) ==
    IF poll.data.ok /\ ~poll.initialRun
    THEN NewerThan(poll.data.asset_events, poll.before)
    ELSE <<>>

\* C32: in the listing bot of part_001 a poll whose HTTP response is OK and
\* holds listing events newer than lastProcessedTimestamp returns those
\* listings, not null, and monitorListings puts them on LISTINGS_QUEUE or
\* hands them to the drain.
C32_NewListingsReturned ==
    \A i \in DOMAIN enqueued :
        NewListingsOf(enqueued[i]) # <<>> =>
            /\ enqueued[i].returned = "listings"
            /\ enqueued[i].listings = NewListingsOf(enqueued[i])

----------------------------------------------------------------------------
\* The announcement carries the sale's own tokenId, price, payment symbol,
\* transaction link and buyer.
AnnouncesTheSale ==
    announcement = [tokenId |-> saleFacts.tokenId,
                    ethPrice |-> saleFacts.ethPrice,
                    currency |-> saleFacts.payment.value,
                    transactionUrl |-> saleFacts.transactionUrl,
                    buyerAddress |-> saleFacts.toAddress]

\* C33: in the sales bot of bottybot.mjs a matched sale of the old wrapper
\* contract whose rate and detail lookups succeed is announced by the
\* old-wrapper announcer with the sale's tokenId, price, symbol, link and
\* buyer (the announcer does not fail before the POST, and what it POSTs
\* are the sale's fields); a sale of the primary contract is announced by
\* announceMoonCatSale.
C33_AnnouncedByItsAnnouncer ==
    ann.pc \notin {"none", "rate"} =>
        /\ ann.announcerName =
               (IF ann.contractAddress = "oldWrapper"
                THEN "announceOldWrapperSale" ELSE "announceMoonCatSale")
        /\ ~ann.lookupFailed => ann.pc # "threw"
        /\ (ann.pc = "send" \/ ann.posted) => AnnouncesTheSale

----------------------------------------------------------------------------
\* The CatNamed handler has returned after its lookups.
NamingLookedUp ==
    /\ handler.kind = "naming"
    /\ handler.pc \in {"post", "returned"}
    /\ "rescueIndex" \in DOMAIN handler

\* C34: in the naming bot of part_001 a CatNamed event whose name is not
\* blocked and whose rescue index is found, 0 included, leads straight from
\* the handler to exactly one 'Named' POST; an event with a blocked name or
\* without a rescue index leads to none.
C34_NamedPostedOnce ==
    /\ (handler.kind = "naming" /\ isBlockedFullName(handler.name))
           => webhookPosts = <<>>
    /\ NamingLookedUp =>
           IF handler.rescueIndex = NullIndex THEN webhookPosts = <<>>
           ELSE webhookPosts = <<1>>
    /\ transferQueue = <<>> /\ salesQueue = <<>>

----------------------------------------------------------------------------
\* The positions of a sales loop inside the announcer.
AnnouncerPositions == {"rate", "details", "post", "postFailed"}

Announcing == {s \in Ids : sloop[s].pc \in AnnouncerPositions}

\* The sales loop s is done with the announcer in this step.
LeavesAnnouncer(s) ==
    /\ sloop[s].pc \in AnnouncerPositions
    /\ sloop'[s].pc \notin AnnouncerPositions

\* The sales loop s shifts a candidate from salesQueue in this step.
Dequeues(s) ==
    /\ sloop'[s].pc = "lookup"
    /\ sloop'[s] # sloop[s]

\* A candidate is shifted only while no other invocation is in the
\* announcer or in the delay after it.
DequeuesAfterPacing ==
    \A s \in Ids :
        Dequeues(s) =>
            \A t \in Ids \ {s} :
                sloop[t].pc \notin AnnouncerPositions \cup {"pace"}

\* C35 as claimed: in part_001 the sales drain that has called the announcer
\* for a matched sale waits DISCORD_MESSAGE_DELAY_MS when the announcer is
\* done, before it tests the queue again; no two announcers are at work at
\* once and no candidate is shifted while one is at work or paced.
C35_PacedAfterAnnouncer ==
    /\ [](variant = "part_001" => Cardinality(Announcing) <= 1)
    /\ [][variant = "part_001" =>
            /\ \A s \in Ids : LeavesAnnouncer(s) => sloop'[s].pc = "pace"
            /\ DequeuesAfterPacing]_vars

\* C35 amended: the drain waits the delay whenever the announcer returns,
\* with or without an announcement, and always once a POST was issued; it
\* goes on at once only when the announcer throws on the name data, before
\* any POST. No two announcers are at work at once and no candidate is
\* shifted while one is at work or paced.
C35_PacedAfterAnnouncerReturns ==
    /\ [](variant = "part_001" => Cardinality(Announcing) <= 1)
    /\ [][variant = "part_001" =>
            /\ \A s \in Ids :
                  LeavesAnnouncer(s) =>
                      \/ sloop'[s].pc = "pace"
                      \/ /\ sloop[s].pc = "details"
                         /\ posts[sloop[s].sale.id] = 0
                         /\ posts' = posts
            /\ DequeuesAfterPacing]_vars

\* The first sale was POSTed to both webhooks, the drain has waited, and
\* the announcement of the second sale is being POSTed.
C35_Witness ==
    /\ variant = "part_001"
    /\ posts[1] = Webhooks
    /\ \E s \in Ids : sloop[s].sale.id = 2 /\ sloop[s].pc = "post"

----------------------------------------------------------------------------
\* The call for a transfer has returned a sale.
SaleMatched == matchResult # NotCalled /\ matchResult # Null

\* C36: in every sales-bot variant the sale announced for a confirmed
\* transfer is the sale of the transfer's own transaction: the transaction
\* of the link is the transactionHash of the transfer, so that a transfer
\* that is no sale is not announced with an earlier sale of the same token
\* by the same seller.
C36_SaleOfOwnTransaction ==
    SaleMatched => matchResult.transaction = query.transactionHash

\* C37: in bottybot.mjs, where the events of both collections are merged,
\* the sale matched for a transfer is of the collection of the transfer's
\* contract.
C37_SaleOfOwnCollection ==
    (variant = "bottybot" /\ SaleMatched) =>
        matchResult.contract = query.contractAddress

----------------------------------------------------------------------------
\* The request of getEthToUsdConversionRate ends in this step without a
\* price: fetch rejected, the status was not ok, or the body had no price.
RefreshFails ==
    /\ rateCall.pc = "fetching"
    /\ rateCall'.pc = "returned"
    /\ rateCall'.response = "fails"

\* C38: a failed refresh of the conversion rate leaves cachedConversionRate
\* and lastFetchedTime as they were and the call returns null; the two are
\* only ever written together, by a call whose request came back with a
\* price: the rate is that price and the stamp the time the call began at.
C38_FailedRefreshKeepsCache ==
    [][/\ RefreshFails =>
             /\ UNCHANGED <<cachedConversionRate, lastFetchedTime>>
             /\ rateCall'.returned = "null"
       /\ (cachedConversionRate' # cachedConversionRate
               \/ lastFetchedTime' # lastFetchedTime) =>
             /\ rateCall.pc = "fetching"
             /\ rateCall'.response \in Rates
             /\ cachedConversionRate' = rateCall'.response
             /\ lastFetchedTime' = rateCall.currentTime]_vars

\* A rate was cached, an hour and more went by, and the refresh failed: the
\* call returned null and the cache is what it was before the call.
C38_Witness ==
    /\ rateCall.pc = "returned"
    /\ rateCall.response = "fails"
    /\ rateCall.returned = "null"
    /\ cachedConversionRate \in Rates
    /\ cachedConversionRate = rateCall.cachedBefore
    /\ lastFetchedTime = rateCall.lastBefore
    /\ rateCall.currentTime - lastFetchedTime >= oneHour

----------------------------------------------------------------------------
\* The POST of invocation d comes back in this step.
PostComesBack(d) == dloop[d].pc = "post" /\ dloop'[d].pc = "delay"

\* A 'Listed' announcement is delivered in this step.
Delivers == listed' # listed

\* C39: in the listing bot of bottybot.mjs the cooldown table is written
\* only when a POST has come back ok, and then for the seller and token of
\* that listing; a step that holds a listing back, one in which the rate is
\* missing and one in which the POST fails leave the table as it is, and
\* the order of a listing whose POST failed is not added to
\* PROCESSED_LISTINGS.
C39_CooldownAfterDelivery ==
    [][/\ BLACKLIST' # BLACKLIST =>
             /\ Delivers
             /\ \E d \in Polls :
                   /\ PostComesBack(d)
                   /\ \A key \in CooldownKeys :
                          BLACKLIST'[key] # BLACKLIST[key] =>
                              key = <<dloop[d].listing.maker,
                                      dloop[d].listing.identifier>>
       /\ suppressed' # suppressed => BLACKLIST' = BLACKLIST
       /\ \A d \in Polls :
             (dloop[d].pc = "lookups" /\ dloop'[d].pc = "delay")
                 => BLACKLIST' = BLACKLIST
       /\ \A d \in Polls :
             (PostComesBack(d) /\ ~Delivers) =>
                 /\ BLACKLIST' = BLACKLIST
                 /\ PROCESSED_LISTINGS' = PROCESSED_LISTINGS]_vars

\* A POST failed and another was delivered: the table has the stamp of the
\* delivered listing alone, and the order whose POST failed is not among
\* the processed ones.
C39_Witness ==
    /\ Len(listed) = 1
    /\ listed[1].identifier = "7"
    /\ BLACKLIST[<<"0xab", "7">>] # NotListed
    /\ BLACKLIST[<<"0xab", "42">>] = NotListed
    /\ ~has(PROCESSED_LISTINGS, "0xa1")
    /\ has(PROCESSED_LISTINGS, "0xc3")
    /\ \E i \in DOMAIN enqueued :
          \E j \in DOMAIN enqueued[i].listings :
              enqueued[i].listings[j].order_hash = "0xa1"
    /\ \A d \in Polls : dloop[d].pc = "none"
    /\ LISTINGS_QUEUE = <<>>

====
